---- MODULE Spec2Model ----
(***************************************************************************)
(* The terminal emulator engine of toad: the escape-sequence parser of     *)
(* src/src/vte/vte_parser.c (vte_parser_advance and the per-state          *)
(* functions it calls) and the screen model the enhanced_* callbacks       *)
(* maintain.  Bytes are the integers 0..255.  A C array whose live part is *)
(* delimited by a length field (params.params / params.len, intermediates  *)
(* / intermediate_idx, osc_raw / osc_raw_len, osc_params / osc_num_params) *)
(* is the sequence of its live elements; the length fields are kept.       *)
(***************************************************************************)
EXTENDS Integers, Sequences, FiniteSets, TLC

VARIABLES parser, panel, events, run, stream, calls, hooked

vars == <<parser, panel, events, run, stream, calls, hooked>>

(***************************************************************************)
(* Program constants.                                                      *)
(***************************************************************************)
VTE_MAX_PARAMS == 32
VTE_MAX_INTERMEDIATES == 2
VTE_MAX_OSC_RAW == 1024
VTE_MAX_OSC_PARAMS == 16
UINT16_MAX == 65535
TAB_STOPS_SIZE == 256
REPLACEMENT == 65533


States ==
  {"GROUND", "ESCAPE", "ESCAPE_INTERMEDIATE", "CSI_ENTRY", "CSI_PARAM",
   "CSI_INTERMEDIATE", "CSI_IGNORE", "DCS_ENTRY", "DCS_PARAM",
   "DCS_INTERMEDIATE", "DCS_PASSTHROUGH", "DCS_IGNORE", "OSC_STRING",
   "SOS_PM_APC_STRING"}

(***************************************************************************)
(* UTF-8 utilities.  (b & 0xE0) == 0xC0 is b \div 32 = 6, and so on.       *)
(***************************************************************************)
vte_utf8_char_len(first_byte) ==
  IF first_byte \div 128 = 0 THEN 1
  ELSE IF first_byte \div 32 = 6 THEN 2
  ELSE IF first_byte \div 16 = 14 THEN 3
  ELSE IF first_byte \div 8 = 30 THEN 4
  ELSE 0

\* bytes is the sequence of the len bytes handed to the decoder (1-based).
vte_utf8_decode(bytes, len) ==
  IF len = 0 THEN 0
  ELSE LET first == bytes[1] IN
    IF first \div 128 = 0 THEN first
    ELSE IF first \div 32 = 6 THEN
      IF len >= 2 THEN (first % 32) * 64 + (bytes[2] % 64) ELSE REPLACEMENT
    ELSE IF first \div 16 = 14 THEN
      IF len >= 3
        THEN (first % 16) * 4096 + (bytes[2] % 64) * 64 + (bytes[3] % 64)
        ELSE REPLACEMENT
    ELSE IF first \div 8 = 30 THEN
      IF len >= 4
        THEN (first % 8) * 262144 + (bytes[2] % 64) * 4096
             + (bytes[3] % 64) * 64 + (bytes[4] % 64)
        ELSE REPLACEMENT
    ELSE REPLACEMENT

(***************************************************************************)
(* Parameter container (vte_params_t).  params is the sequence of the len  *)
(* stored values (C index k is params[k + 1]); subparams is the whole      *)
(* array, indexed 0..VTE_MAX_PARAMS - 1 as in C.                           *)
(***************************************************************************)
vte_params_init ==
  [params |-> <<>>,
   subparams |-> [k \in 0..(VTE_MAX_PARAMS - 1) |-> 0],
   current_subparams |-> 0,
   len |-> 0]

vte_params_clear(p) ==
  [p EXCEPT !.params = <<>>,
            !.len = 0,
            !.current_subparams = 0,
            !.subparams = [k \in 0..(VTE_MAX_PARAMS - 1) |-> 0]]

vte_params_push(p, value) ==
  IF p.len >= VTE_MAX_PARAMS THEN p
  ELSE
    LET subs1 == IF p.current_subparams > 0
                   THEN [p.subparams EXCEPT ![p.len - p.current_subparams] =
                                               p.current_subparams]
                   ELSE p.subparams
    IN [params |-> Append(p.params, value),
        subparams |-> [subs1 EXCEPT ![p.len] = 1],
        current_subparams |-> 0,
        len |-> p.len + 1]

\* vte_params_extend without the update of the count of the current
\* parameter.
vte_params_extend_uncounted(p, value) ==
  IF p.len >= VTE_MAX_PARAMS THEN p
  ELSE [p EXCEPT !.params = Append(@, value),
                 !.current_subparams = @ + 1,
                 !.len = @ + 1]

vte_params_extend(p, value) ==
  IF p.len >= VTE_MAX_PARAMS THEN p
  ELSE
    LET cs == p.current_subparams + 1
        len == p.len + 1
    IN [params |-> Append(p.params, value),
        subparams |-> IF len > cs
                        THEN [p.subparams EXCEPT ![len - cs - 1] = cs + 1]
                        ELSE p.subparams,
        current_subparams |-> cs,
        len |-> len]

vte_params_is_full(p) == p.len >= VTE_MAX_PARAMS

\* The walk shared by vte_params_len and vte_params_get: from position pos
\* with count primaries passed, stop at the end or when count reaches index
\* (index = -1 never stops early).
RECURSIVE params_walk(_, _, _, _)
params_walk(p, pos, count, index) ==
  IF pos < p.len /\ count # index
    THEN LET s == p.subparams[pos] IN
         params_walk(p, pos + (IF s = 0 THEN 1 ELSE s), count + 1, index)
    ELSE [pos |-> pos, count |-> count]

vte_params_len(p) == params_walk(p, 0, 0, -1).count

\* NULL is the empty sequence; otherwise the values from pos on, with the
\* subparameter count of the slot.
vte_params_get(p, index) ==
  LET w == params_walk(p, 0, 0, index) IN
  IF w.pos >= p.len \/ w.count # index
    THEN [found |-> FALSE, subparam_count |-> 0, values |-> <<>>]
    ELSE LET c == IF p.subparams[w.pos] = 0 THEN 1 ELSE p.subparams[w.pos] IN
         [found |-> TRUE,
          subparam_count |-> c,
          values |-> SubSeq(p.params, w.pos + 1, p.len)]

vte_params_get_single(p, index, default_val) ==
  LET g == vte_params_get(p, index) IN
  IF g.found THEN g.values[1] ELSE default_val


(***************************************************************************)
(* Screen model (terminal_panel_t).  screen[row][col] is a cell, rows and  *)
(* columns counted from 0; tab_stops is the set of the indices of the      *)
(* bool tab_stops[256] array that hold true.  panel->screen and its rows   *)
(* are allocated for the whole life of the panel, so the NULL tests of the *)
(* source always pass.                                                     *)
(***************************************************************************)
BlankCell(pn) ==
  [codepoint |-> 32, fg_color |-> pn.fg_color, bg_color |-> pn.bg_color,
   attrs |-> pn.attrs]

Rows(pn) == 0..(pn.screen_height - 1)
Cols(pn) == 0..(pn.screen_width - 1)

\* map_charset_char with the table indexed one entry too far.
map_charset_char_next_entry(charset, ch) ==
  IF charset = "CHARSET_DEC_SPECIAL" /\ ch >= 96 /\ ch <= 126
    THEN << 9670, 9618, 9225, 9228, 9229, 9226, 176, 177, 9252, 9227,
            9496, 9488, 9484, 9492, 9532, 9146, 9147, 9472, 9148, 9149,
            9500, 9508, 9524, 9516, 9474, 8804, 8805, 960, 8800, 163,
            183, 183 >>[ch - 96 + 2]
    ELSE ch

map_charset_char(charset, ch) ==
  IF charset = "CHARSET_DEC_SPECIAL" /\ ch >= 96 /\ ch <= 126
    THEN << 9670, 9618, 9225, 9228, 9229, 9226, 176, 177, 9252, 9227,
            9496, 9488, 9484, 9492, 9532, 9146, 9147, 9472, 9148, 9149,
            9500, 9508, 9524, 9516, 9474, 8804, 8805, 960, 8800, 163,
            183 >>[ch - 96 + 1]
    ELSE ch

InitModes ==
  [application_cursor_keys |-> FALSE, application_keypad |-> FALSE,
   auto_wrap |-> TRUE, origin_mode |-> FALSE, insert_mode |-> FALSE,
   local_echo |-> FALSE, cursor_visible |-> TRUE, reverse_video |-> FALSE,
   bracketed_paste |-> FALSE]

terminal_panel_init(pn, width, height) ==
  [pn EXCEPT !.screen_width = width,
             !.screen_height = height,
             !.cursor_x = 0,
             !.cursor_y = 0,
             !.saved_cursor_x = 0,
             !.saved_cursor_y = 0,
             !.scroll_top = 0,
             !.scroll_bottom = height - 1,
             !.g0_charset = "CHARSET_ASCII",
             !.g1_charset = "CHARSET_DEC_SPECIAL",
             !.using_g1 = FALSE,
             !.modes = InitModes,
             !.tab_stops = {i \in 8..(TAB_STOPS_SIZE - 1) : i % 8 = 0},
             !.fg_color = -1,
             !.bg_color = -1,
             !.attrs = 0,
             !.saved_fg_color = -1,
             !.saved_bg_color = -1,
             !.saved_attrs = 0]

\* terminal_clear_screen with every mode clearing the whole grid.
terminal_clear_screen_whole(pn, mode) ==
  [pn EXCEPT !.screen = [row \in Rows(pn) |-> [col \in Cols(pn) |->
                           BlankCell(pn)]]]


terminal_clear_screen(pn, mode) ==
  LET start_row == IF mode = 0 THEN pn.cursor_y ELSE 0
      start_col == IF mode = 0 THEN pn.cursor_x ELSE 0
      end_row == IF mode = 1 THEN pn.cursor_y + 1 ELSE pn.screen_height
      end_col == IF mode = 1
                   THEN (IF pn.cursor_y = end_row - 1 THEN pn.cursor_x + 1
                                                      ELSE pn.screen_width)
                   ELSE pn.screen_width
      col_start(row) == IF row = start_row THEN start_col ELSE 0
      col_end(row) == IF row = end_row - 1 THEN end_col ELSE pn.screen_width
      cleared(row, col) ==
        /\ row >= start_row /\ row < end_row /\ row < pn.screen_height
        /\ col >= col_start(row) /\ col < col_end(row)
        /\ col < pn.screen_width
  IN [pn EXCEPT !.screen =
        [row \in Rows(pn) |-> [col \in Cols(pn) |->
           IF cleared(row, col) THEN BlankCell(pn) ELSE pn.screen[row][col]]]]

\* terminal_panel_reset without the call of terminal_clear_screen.
terminal_panel_reset_keeps_grid(pn) ==
  terminal_panel_init(pn, pn.screen_width, pn.screen_height)


terminal_panel_reset(pn) ==
  terminal_clear_screen(
    terminal_panel_init(pn, pn.screen_width, pn.screen_height), 2)

terminal_clear_line(pn, mode) ==
  IF pn.cursor_y < 0 \/ pn.cursor_y >= pn.screen_height THEN pn
  ELSE
    LET start_col == IF mode = 0 THEN pn.cursor_x ELSE 0
        end_col == IF mode = 1 THEN pn.cursor_x + 1 ELSE pn.screen_width
    IN [pn EXCEPT !.screen[pn.cursor_y] =
          [col \in Cols(pn) |->
             IF col >= start_col /\ col < end_col /\ col < pn.screen_width
               THEN BlankCell(pn) ELSE pn.screen[pn.cursor_y][col]]]

BlankRow(pn) == [col \in Cols(pn) |-> BlankCell(pn)]

\* One pass of the outer loop of terminal_scroll_up / terminal_delete_lines:
\* rows from..bottom-1 take the row below, row bottom is blanked.
ShiftRowsUp(pn, from, bottom) ==
  [pn EXCEPT !.screen =
     [row \in Rows(pn) |->
        IF row >= from /\ row < bottom THEN pn.screen[row + 1]
        ELSE IF row = bottom THEN BlankRow(pn)
        ELSE pn.screen[row]]]

\* One pass of the outer loop of terminal_scroll_down / terminal_insert_lines:
\* rows bottom..from+1 take the row above, row from is blanked.
ShiftRowsDown(pn, from, bottom) ==
  [pn EXCEPT !.screen =
     [row \in Rows(pn) |->
        IF row > from /\ row <= bottom THEN pn.screen[row - 1]
        ELSE IF row = from THEN BlankRow(pn)
        ELSE pn.screen[row]]]

\* for (i = 0; i < n; i++) pass: the passes stop early once a pass changes
\* nothing, the remaining ones then changing nothing either.
RECURSIVE RepeatUp(_, _, _, _)
RepeatUp(pn, from, bottom, n) ==
  IF n <= 0 THEN pn
  ELSE LET q == ShiftRowsUp(pn, from, bottom) IN
       IF q = pn THEN pn ELSE RepeatUp(q, from, bottom, n - 1)

RECURSIVE RepeatDown(_, _, _, _)
RepeatDown(pn, from, bottom, n) ==
  IF n <= 0 THEN pn
  ELSE LET q == ShiftRowsDown(pn, from, bottom) IN
       IF q = pn THEN pn ELSE RepeatDown(q, from, bottom, n - 1)

\* terminal_scroll_up scrolling from the first row of the grid.
terminal_scroll_up_from_first_row(pn, lines) ==
  IF lines <= 0 THEN pn
  ELSE IF pn.scroll_top >= pn.scroll_bottom \/ pn.scroll_top < 0
          \/ pn.scroll_bottom >= pn.screen_height THEN pn
  ELSE RepeatUp(pn, 0, pn.scroll_bottom, lines)

terminal_scroll_up(pn, lines) ==
  IF lines <= 0 THEN pn
  ELSE IF pn.scroll_top >= pn.scroll_bottom \/ pn.scroll_top < 0
          \/ pn.scroll_bottom >= pn.screen_height THEN pn
  ELSE RepeatUp(pn, pn.scroll_top, pn.scroll_bottom, lines)

terminal_scroll_down(pn, lines) ==
  IF lines <= 0 THEN pn
  ELSE IF pn.scroll_top >= pn.scroll_bottom \/ pn.scroll_top < 0
          \/ pn.scroll_bottom >= pn.screen_height THEN pn
  ELSE RepeatDown(pn, pn.scroll_top, pn.scroll_bottom, lines)

terminal_insert_lines(pn, count) ==
  IF count <= 0 THEN pn
  ELSE IF pn.cursor_y < pn.scroll_top \/ pn.cursor_y > pn.scroll_bottom THEN pn
  ELSE RepeatDown(pn, pn.cursor_y, pn.scroll_bottom, count)

\* terminal_delete_lines with the last row of the grid as bottom.
terminal_delete_lines_to_last_row(pn, count) ==
  IF count <= 0 THEN pn
  ELSE IF pn.cursor_y < pn.scroll_top \/ pn.cursor_y > pn.scroll_bottom THEN pn
  ELSE RepeatUp(pn, pn.cursor_y, pn.screen_height - 1, count)


terminal_delete_lines(pn, count) ==
  IF count <= 0 THEN pn
  ELSE IF pn.cursor_y < pn.scroll_top \/ pn.cursor_y > pn.scroll_bottom THEN pn
  ELSE RepeatUp(pn, pn.cursor_y, pn.scroll_bottom, count)

\* terminal_insert_chars without the shift to the right.
terminal_insert_chars_overwriting(pn, count) ==
  IF count <= 0 \/ pn.cursor_y < 0 \/ pn.cursor_y >= pn.screen_height THEN pn
  ELSE [pn EXCEPT !.screen[pn.cursor_y] =
          [col \in Cols(pn) |->
             IF col >= pn.cursor_x /\ col < pn.cursor_x + count
               THEN BlankCell(pn) ELSE pn.screen[pn.cursor_y][col]]]


terminal_insert_chars(pn, count) ==
  IF count <= 0 \/ pn.cursor_y < 0 \/ pn.cursor_y >= pn.screen_height THEN pn
  ELSE
    LET row == pn.cursor_y
        start_col == pn.cursor_x
        shifted == [col \in Cols(pn) |->
                      IF col >= start_col + count /\ col - count >= start_col
                        THEN pn.screen[row][col - count]
                        ELSE pn.screen[row][col]]
    IN [pn EXCEPT !.screen[row] =
          [col \in Cols(pn) |->
             IF col >= start_col /\ col < start_col + count
                /\ col < pn.screen_width
               THEN BlankCell(pn) ELSE shifted[col]]]

terminal_delete_chars(pn, count) ==
  IF count <= 0 \/ pn.cursor_y < 0 \/ pn.cursor_y >= pn.screen_height THEN pn
  ELSE
    LET row == pn.cursor_y
        start_col == pn.cursor_x
        shifted == [col \in Cols(pn) |->
                      IF col >= start_col /\ col < pn.screen_width - count
                         /\ col + count < pn.screen_width
                        THEN pn.screen[row][col + count]
                        ELSE pn.screen[row][col]]
    IN [pn EXCEPT !.screen[row] =
          [col \in Cols(pn) |->
             IF col >= pn.screen_width - count /\ col < pn.screen_width
                /\ col >= 0
               THEN BlankCell(pn) ELSE shifted[col]]]

terminal_save_cursor(pn) ==
  [pn EXCEPT !.saved_cursor_x = pn.cursor_x,
             !.saved_cursor_y = pn.cursor_y,
             !.saved_fg_color = pn.fg_color,
             !.saved_bg_color = pn.bg_color,
             !.saved_attrs = pn.attrs]

\* terminal_restore_cursor with the pen left as it is.
terminal_restore_cursor_position_only(pn) ==
  [pn EXCEPT !.cursor_x = pn.saved_cursor_x,
             !.cursor_y = pn.saved_cursor_y]


terminal_restore_cursor(pn) ==
  [pn EXCEPT !.cursor_x = pn.saved_cursor_x,
             !.cursor_y = pn.saved_cursor_y,
             !.fg_color = pn.saved_fg_color,
             !.bg_color = pn.saved_bg_color,
             !.attrs = pn.saved_attrs]

terminal_set_tab_stop(pn) ==
  IF pn.cursor_x >= 0 /\ pn.cursor_x < TAB_STOPS_SIZE
    THEN [pn EXCEPT !.tab_stops = @ \cup {pn.cursor_x}]
    ELSE pn

\* terminal_clear_tab_stop with mode 0 clearing as mode 3 does.
terminal_clear_tab_stop_all(pn, mode) ==
  IF mode = 0 \/ mode = 3 THEN [pn EXCEPT !.tab_stops = {}] ELSE pn


terminal_clear_tab_stop(pn, mode) ==
  IF mode = 0 THEN
    (IF pn.cursor_x >= 0 /\ pn.cursor_x < TAB_STOPS_SIZE
       THEN [pn EXCEPT !.tab_stops = @ \ {pn.cursor_x}]
       ELSE pn)
  ELSE IF mode = 3 THEN [pn EXCEPT !.tab_stops = {}]
  ELSE pn

\* while (next_tab < screen_width && next_tab < 256 && !tab_stops[next_tab])
RECURSIVE NextTab(_, _)
NextTab(pn, next_tab) ==
  IF next_tab < pn.screen_width /\ next_tab < TAB_STOPS_SIZE
     /\ next_tab \notin pn.tab_stops
    THEN NextTab(pn, next_tab + 1)
    ELSE next_tab

RECURSIVE terminal_tab_forward(_, _)
terminal_tab_forward(pn, count) ==
  IF count <= 0 THEN pn
  ELSE LET next_tab == NextTab(pn, pn.cursor_x + 1) IN
       IF next_tab < pn.screen_width
         THEN terminal_tab_forward([pn EXCEPT !.cursor_x = next_tab], count - 1)
         ELSE [pn EXCEPT !.cursor_x = pn.screen_width - 1]

\* while (prev_tab >= 0 && !tab_stops[prev_tab])
RECURSIVE PrevTab(_, _)
PrevTab(pn, prev_tab) ==
  IF prev_tab >= 0 /\ prev_tab \notin pn.tab_stops
    THEN PrevTab(pn, prev_tab - 1)
    ELSE prev_tab

RECURSIVE terminal_tab_backward(_, _)
terminal_tab_backward(pn, count) ==
  IF count <= 0 THEN pn
  ELSE LET prev_tab == PrevTab(pn, pn.cursor_x - 1) IN
       IF prev_tab >= 0
         THEN terminal_tab_backward([pn EXCEPT !.cursor_x = prev_tab], count - 1)
         ELSE [pn EXCEPT !.cursor_x = 0]


(***************************************************************************)
(* The enhanced_* callbacks: the screen's handling of parser events.       *)
(* attrs is the int bitset of the source; | and & ~ on one bit are         *)
(* arithmetic on that bit.                                                 *)
(***************************************************************************)
HasBit(a, bit) == (a \div bit) % 2 = 1
OrBit(a, bit) == IF HasBit(a, bit) THEN a ELSE a + bit
ClearBit(a, bit) == IF HasBit(a, bit) THEN a - bit ELSE a

\* if (cursor_y >= scroll_bottom) terminal_scroll_up(panel, 1); else cursor_y++;
IndexDown(pn) ==
  IF pn.cursor_y >= pn.scroll_bottom
    THEN terminal_scroll_up(pn, 1)
    ELSE [pn EXCEPT !.cursor_y = pn.cursor_y + 1]

\* if (cursor_y <= scroll_top) terminal_scroll_down(panel, 1); else cursor_y--;
IndexUp(pn) ==
  IF pn.cursor_y <= pn.scroll_top
    THEN terminal_scroll_down(pn, 1)
    ELSE [pn EXCEPT !.cursor_y = pn.cursor_y - 1]

\* ApplyMode with the DEC private numbers honoured in ANSI sequences too.
ApplyMode_either_set(pn, private, mode, set) ==
  CASE mode = 1 -> [pn EXCEPT !.modes.application_cursor_keys = set]
    [] mode = 6 -> [pn EXCEPT !.modes.origin_mode = set]
    [] mode = 7 -> [pn EXCEPT !.modes.auto_wrap = set]
    [] mode = 25 -> [pn EXCEPT !.modes.cursor_visible = set]
    [] mode = 2004 -> [pn EXCEPT !.modes.bracketed_paste = set]
    [] mode = 4 /\ ~private -> [pn EXCEPT !.modes.insert_mode = set]
    [] mode = 12 /\ ~private -> [pn EXCEPT !.modes.local_echo = ~set]
    [] mode = 20 /\ ~private -> [pn EXCEPT !.modes.auto_wrap = set]
    [] OTHER -> pn

\* One case of the mode switches of 'h' (set = TRUE) and 'l' (set = FALSE).
ApplyMode(pn, private, mode, set) ==
  IF private THEN
    CASE mode = 1 -> [pn EXCEPT !.modes.application_cursor_keys = set]
      [] mode = 6 -> [pn EXCEPT !.modes.origin_mode = set]
      [] mode = 7 -> [pn EXCEPT !.modes.auto_wrap = set]
      [] mode = 25 -> [pn EXCEPT !.modes.cursor_visible = set]
      [] mode = 2004 -> [pn EXCEPT !.modes.bracketed_paste = set]
      [] OTHER -> pn
  ELSE
    CASE mode = 4 -> [pn EXCEPT !.modes.insert_mode = set]
      [] mode = 12 -> [pn EXCEPT !.modes.local_echo = ~set]
      [] mode = 20 -> [pn EXCEPT !.modes.auto_wrap = set]
      [] OTHER -> pn

\* for (i = 0; i < vte_params_len(params); i++) of cases 'h' and 'l'.
RECURSIVE ModeLoop(_, _, _, _, _)
ModeLoop(pn, params, private, set, i) ==
  IF i < vte_params_len(params)
    THEN ModeLoop(ApplyMode(pn, private, vte_params_get_single(params, i, 0), set),
                  params, private, set, i + 1)
    ELSE pn

Rgb8(r, g, b) ==
  (IF r > 127 THEN 1 ELSE 0) + (IF g > 127 THEN 2 ELSE 0)
  + (IF b > 127 THEN 4 ELSE 0)

\* ExtendedColor with the 256-colour form one parameter short.
ExtendedColor_index_unconsumed(params, i, old) ==
  IF i + 1 < vte_params_len(params) THEN
    LET color_mode == vte_params_get_single(params, i + 1, 0) IN
    IF color_mode = 5 /\ i + 2 < vte_params_len(params)
      THEN [color |-> vte_params_get_single(params, i + 2, 0), i |-> i + 1]
    ELSE IF color_mode = 2 /\ i + 4 < vte_params_len(params)
      THEN [color |-> Rgb8(vte_params_get_single(params, i + 2, 0),
                           vte_params_get_single(params, i + 3, 0),
                           vte_params_get_single(params, i + 4, 0)),
            i |-> i + 4]
    ELSE [color |-> old, i |-> i]
  ELSE [color |-> old, i |-> i]

\* The 38 / 48 cases of SGR: the new colour (or the old one) and the new i.
ExtendedColor(params, i, old) ==
  IF i + 1 < vte_params_len(params) THEN
    LET color_mode == vte_params_get_single(params, i + 1, 0) IN
    IF color_mode = 5 /\ i + 2 < vte_params_len(params)
      THEN [color |-> vte_params_get_single(params, i + 2, 0), i |-> i + 2]
    ELSE IF color_mode = 2 /\ i + 4 < vte_params_len(params)
      THEN [color |-> Rgb8(vte_params_get_single(params, i + 2, 0),
                           vte_params_get_single(params, i + 3, 0),
                           vte_params_get_single(params, i + 4, 0)),
            i |-> i + 4]
    ELSE [color |-> old, i |-> i]
  ELSE [color |-> old, i |-> i]

\* SgrReset with the attributes left as they are.
SgrReset_keeps_attrs(pn) == [pn EXCEPT !.fg_color = -1, !.bg_color = -1]

\* case 0 of the SGR switch.
SgrReset(pn) == [pn EXCEPT !.fg_color = -1, !.bg_color = -1, !.attrs = 0]

\* for (i = 0; i < vte_params_len(params); i++) switch (param) of case 'm'.
RECURSIVE SgrLoop(_, _, _)
SgrLoop(pn, params, i) ==
  IF i >= vte_params_len(params) THEN pn
  ELSE
    LET param == vte_params_get_single(params, i, 0)
        fgx == ExtendedColor(params, i, pn.fg_color)
        bgx == ExtendedColor(params, i, pn.bg_color)
        q == CASE param = 0 ->
                    SgrReset(pn)
               [] param = 1 -> [pn EXCEPT !.attrs = OrBit(@, 1)]
               [] param = 2 -> [pn EXCEPT !.attrs = OrBit(@, 8)]
               [] param = 3 -> [pn EXCEPT !.attrs = OrBit(@, 16)]
               [] param = 4 -> [pn EXCEPT !.attrs = OrBit(@, 2)]
               [] param = 5 -> [pn EXCEPT !.attrs = OrBit(@, 32)]
               [] param = 7 -> [pn EXCEPT !.attrs = OrBit(@, 4)]
               [] param = 8 -> [pn EXCEPT !.attrs = OrBit(@, 64)]
               [] param = 9 -> [pn EXCEPT !.attrs = OrBit(@, 128)]
               [] param = 22 -> [pn EXCEPT !.attrs = ClearBit(ClearBit(@, 1), 8)]
               [] param = 23 -> [pn EXCEPT !.attrs = ClearBit(@, 16)]
               [] param = 24 -> [pn EXCEPT !.attrs = ClearBit(@, 2)]
               [] param = 25 -> [pn EXCEPT !.attrs = ClearBit(@, 32)]
               [] param = 27 -> [pn EXCEPT !.attrs = ClearBit(@, 4)]
               [] param = 28 -> [pn EXCEPT !.attrs = ClearBit(@, 64)]
               [] param = 29 -> [pn EXCEPT !.attrs = ClearBit(@, 128)]
               [] param >= 30 /\ param <= 37 ->
                    [pn EXCEPT !.fg_color = param - 30]
               [] param = 38 -> [pn EXCEPT !.fg_color = fgx.color]
               [] param = 39 -> [pn EXCEPT !.fg_color = -1]
               [] param >= 40 /\ param <= 47 ->
                    [pn EXCEPT !.bg_color = param - 40]
               [] param = 48 -> [pn EXCEPT !.bg_color = bgx.color]
               [] param = 49 -> [pn EXCEPT !.bg_color = -1]
               [] param >= 90 /\ param <= 97 ->
                    [pn EXCEPT !.fg_color = param - 90, !.attrs = OrBit(@, 1)]
               [] param >= 100 /\ param <= 107 ->
                    [pn EXCEPT !.bg_color = param - 100]
               [] OTHER -> pn
        i2 == IF param = 38 THEN fgx.i ELSE IF param = 48 THEN bgx.i ELSE i
    IN SgrLoop(q, params, i2 + 1)

\* The row left as computed.
ClampRow_unclamped(pn, row) == row

ClampRow(pn, row) ==
  IF row < 0 THEN 0
  ELSE IF row >= pn.screen_height THEN pn.screen_height - 1 ELSE row

ClampCol(pn, col) ==
  IF col < 0 THEN 0
  ELSE IF col >= pn.screen_width THEN pn.screen_width - 1 ELSE col

\* if (origin_mode) { row += scroll_top; if (row > scroll_bottom) row = scroll_bottom; }
OriginRow(pn, row) ==
  IF pn.modes.origin_mode
    THEN (IF row + pn.scroll_top > pn.scroll_bottom THEN pn.scroll_bottom
                                                   ELSE row + pn.scroll_top)
    ELSE row

\* case 'r' without the test top < bottom.
SetScrollRegion_unordered(pn, params) ==
  LET top == vte_params_get_single(params, 0, 1) - 1
      bottom == vte_params_get_single(params, 1, pn.screen_height) - 1
  IN IF top >= 0 /\ bottom < pn.screen_height
       THEN [pn EXCEPT !.scroll_top = top,
                       !.scroll_bottom = bottom,
                       !.cursor_x = 0,
                       !.cursor_y = IF pn.modes.origin_mode THEN top ELSE 0]
       ELSE pn

\* case 'r' with the cursor always sent to row 0.
SetScrollRegion_home_absolute(pn, params) ==
  LET top == vte_params_get_single(params, 0, 1) - 1
      bottom == vte_params_get_single(params, 1, pn.screen_height) - 1
  IN IF top >= 0 /\ bottom < pn.screen_height /\ top < bottom
       THEN [pn EXCEPT !.scroll_top = top,
                       !.scroll_bottom = bottom,
                       !.cursor_x = 0,
                       !.cursor_y = 0]
       ELSE pn


\* case 'r' of enhanced_csi_dispatch (DECSTBM).
SetScrollRegion(pn, params) ==
  LET top == vte_params_get_single(params, 0, 1) - 1
      bottom == vte_params_get_single(params, 1, pn.screen_height) - 1
  IN IF top >= 0 /\ bottom < pn.screen_height /\ top < bottom
       THEN [pn EXCEPT !.scroll_top = top,
                       !.scroll_bottom = bottom,
                       !.cursor_x = 0,
                       !.cursor_y = IF pn.modes.origin_mode THEN top ELSE 0]
       ELSE pn

enhanced_csi_dispatch(pn, params, intermediates, intermediate_len, ignore, action) ==
  IF ignore THEN pn
  ELSE
    LET n1 == vte_params_get_single(params, 0, 1)
        n0 == vte_params_get_single(params, 0, 0)
        private == intermediate_len > 0 /\ intermediates[1] = 63
    IN
    CASE action = 65 -> \* 'A'
           [pn EXCEPT !.cursor_y = IF pn.cursor_y - n1 < 0 THEN 0
                                   ELSE pn.cursor_y - n1]
      [] action = 66 -> \* 'B'
           [pn EXCEPT !.cursor_y = IF pn.cursor_y + n1 >= pn.screen_height
                                     THEN pn.screen_height - 1
                                     ELSE pn.cursor_y + n1]
      [] action = 67 -> \* 'C'
           [pn EXCEPT !.cursor_x = IF pn.cursor_x + n1 >= pn.screen_width
                                     THEN pn.screen_width - 1
                                     ELSE pn.cursor_x + n1]
      [] action = 68 -> \* 'D'
           [pn EXCEPT !.cursor_x = IF pn.cursor_x - n1 < 0 THEN 0
                                   ELSE pn.cursor_x - n1]
      [] action = 69 -> \* 'E'
           [pn EXCEPT !.cursor_y = IF pn.cursor_y + n1 >= pn.screen_height
                                     THEN pn.screen_height - 1
                                     ELSE pn.cursor_y + n1,
                      !.cursor_x = 0]
      [] action = 70 -> \* 'F'
           [pn EXCEPT !.cursor_y = IF pn.cursor_y - n1 < 0 THEN 0
                                   ELSE pn.cursor_y - n1,
                      !.cursor_x = 0]
      [] action = 71 -> \* 'G'
           [pn EXCEPT !.cursor_x = ClampCol(pn, n1 - 1)]
      [] action = 72 \/ action = 102 -> \* 'H', 'f'
           [pn EXCEPT !.cursor_y = ClampRow(pn, OriginRow(pn, n1 - 1)),
                      !.cursor_x =
                        ClampCol(pn, vte_params_get_single(params, 1, 1) - 1)]
      [] action = 73 -> terminal_tab_forward(pn, n1) \* 'I'
      [] action = 74 -> terminal_clear_screen(pn, n0) \* 'J'
      [] action = 75 -> terminal_clear_line(pn, n0) \* 'K'
      [] action = 76 -> terminal_insert_lines(pn, n1) \* 'L'
      [] action = 77 -> terminal_delete_lines(pn, n1) \* 'M'
      [] action = 80 -> terminal_delete_chars(pn, n1) \* 'P'
      [] action = 83 -> terminal_scroll_up(pn, n1) \* 'S'
      [] action = 84 -> terminal_scroll_down(pn, n1) \* 'T'
      [] action = 88 -> \* 'X'
           IF pn.cursor_y >= 0 /\ pn.cursor_y < pn.screen_height
             THEN [pn EXCEPT !.screen[pn.cursor_y] =
                     [col \in Cols(pn) |->
                        IF col >= pn.cursor_x /\ col - pn.cursor_x < n1
                          THEN BlankCell(pn) ELSE pn.screen[pn.cursor_y][col]]]
             ELSE pn
      [] action = 90 -> terminal_tab_backward(pn, n1) \* 'Z'
      [] action = 64 -> terminal_insert_chars(pn, n1) \* '@'
      [] action = 100 -> \* 'd'
           [pn EXCEPT !.cursor_y = ClampRow(pn, OriginRow(pn, n1 - 1))]
      [] action = 103 -> terminal_clear_tab_stop(pn, n0) \* 'g'
      [] action = 104 -> ModeLoop(pn, params, private, TRUE, 0) \* 'h'
      [] action = 108 -> ModeLoop(pn, params, private, FALSE, 0) \* 'l'
      [] action = 109 -> \* 'm'
           IF vte_params_len(params) = 0
             THEN [pn EXCEPT !.fg_color = -1, !.bg_color = -1, !.attrs = 0]
             ELSE SgrLoop(pn, params, 0)
      [] action = 114 -> SetScrollRegion(pn, params) \* 'r'
      [] action = 115 -> terminal_save_cursor(pn) \* 's'
      [] action = 117 -> terminal_restore_cursor(pn) \* 'u'
      [] OTHER -> pn

\* The designation table of the default case of enhanced_esc_dispatch.
DesignatedCharset(byte) ==
  CASE byte = 48 -> "CHARSET_DEC_SPECIAL"        \* '0'
    [] byte = 65 -> "CHARSET_UK"                 \* 'A'
    [] byte = 66 -> "CHARSET_ASCII"              \* 'B'
    [] byte = 52 -> "CHARSET_DUTCH"              \* '4'
    [] byte = 53 -> "CHARSET_FINNISH"            \* '5'
    [] byte = 67 \/ byte = 82 -> "CHARSET_FINNISH"   \* 'C', 'R'
    [] byte = 81 -> "CHARSET_FRENCH_CANADIAN"    \* 'Q'
    [] byte = 75 -> "CHARSET_GERMAN"             \* 'K'
    [] byte = 89 -> "CHARSET_ITALIAN"            \* 'Y'
    [] byte = 69 \/ byte = 54 -> "CHARSET_NORWEGIAN_DANISH" \* 'E', '6'
    [] byte = 90 -> "CHARSET_SPANISH"            \* 'Z'
    [] byte = 55 \/ byte = 72 -> "CHARSET_SWEDISH"   \* '7', 'H'
    [] byte = 61 -> "CHARSET_SWISS"              \* '='
    [] OTHER -> "CHARSET_ASCII"

\* enhanced_esc_dispatch without the test of ignore.
enhanced_esc_dispatch_heedless(pn, intermediates, intermediate_len, ignore, byte) ==
  CASE byte = 55 -> terminal_save_cursor(pn)      \* '7'
    [] byte = 56 -> terminal_restore_cursor(pn)   \* '8'
    [] byte = 99 -> terminal_panel_reset(pn)      \* 'c'
    [] byte = 68 -> IndexDown(pn)                 \* 'D'
    [] byte = 69 -> IndexDown([pn EXCEPT !.cursor_x = 0]) \* 'E'
    [] byte = 72 -> terminal_set_tab_stop(pn)     \* 'H'
    [] byte = 77 -> IndexUp(pn)                   \* 'M'
    [] byte = 61 -> [pn EXCEPT !.modes.application_keypad = TRUE]  \* '='
    [] byte = 62 -> [pn EXCEPT !.modes.application_keypad = FALSE] \* '>'
    [] OTHER -> pn

enhanced_esc_dispatch(pn, intermediates, intermediate_len, ignore, byte) ==
  IF ignore THEN pn
  ELSE
    CASE byte = 55 -> terminal_save_cursor(pn)      \* '7'
      [] byte = 56 -> terminal_restore_cursor(pn)   \* '8'
      [] byte = 99 -> terminal_panel_reset(pn)      \* 'c'
      [] byte = 68 -> IndexDown(pn)                 \* 'D'
      [] byte = 69 -> IndexDown([pn EXCEPT !.cursor_x = 0]) \* 'E'
      [] byte = 72 -> terminal_set_tab_stop(pn)     \* 'H'
      [] byte = 77 -> IndexUp(pn)                   \* 'M'
      [] byte = 90 -> pn                            \* 'Z'
      [] byte = 61 -> [pn EXCEPT !.modes.application_keypad = TRUE]  \* '='
      [] byte = 62 -> [pn EXCEPT !.modes.application_keypad = FALSE] \* '>'
      [] byte = 78 \/ byte = 79 -> pn               \* 'N', 'O'
      [] OTHER ->
           IF intermediate_len = 1
             THEN CASE intermediates[1] = 40 ->     \* '('
                         [pn EXCEPT !.g0_charset = DesignatedCharset(byte)]
                    [] intermediates[1] = 41 ->     \* ')'
                         [pn EXCEPT !.g1_charset = DesignatedCharset(byte)]
                    [] OTHER -> pn
             ELSE pn

enhanced_print(pn, codepoint) ==
  LET active_charset == IF pn.using_g1 THEN pn.g1_charset ELSE pn.g0_charset
      cp == IF codepoint >= 32 /\ codepoint <= 126
              THEN map_charset_char(active_charset, codepoint)
              ELSE codepoint
  IN
  IF pn.cursor_y >= 0 /\ pn.cursor_y < pn.screen_height
     /\ pn.cursor_x >= 0 /\ pn.cursor_x < pn.screen_width
  THEN
    LET p1 == IF pn.modes.insert_mode THEN terminal_insert_chars(pn, 1) ELSE pn
        p2 == [p1 EXCEPT !.screen[pn.cursor_y][pn.cursor_x] =
                 [codepoint |-> cp, fg_color |-> pn.fg_color,
                  bg_color |-> pn.bg_color, attrs |-> pn.attrs],
               !.cursor_x = pn.cursor_x + 1]
    IN
    IF p2.cursor_x >= p2.screen_width THEN
      IF p2.modes.auto_wrap THEN
        LET p3 == [p2 EXCEPT !.cursor_x = 0, !.cursor_y = p2.cursor_y + 1] IN
        IF p3.cursor_y > p3.scroll_bottom
          THEN terminal_scroll_up([p3 EXCEPT !.cursor_y = p3.scroll_bottom], 1)
          ELSE p3
      ELSE [p2 EXCEPT !.cursor_x = p2.screen_width - 1]
    ELSE p2
  ELSE pn

enhanced_execute(pn, byte) ==
  CASE byte = 7 -> pn
    [] byte = 8 -> IF pn.cursor_x > 0
                     THEN [pn EXCEPT !.cursor_x = pn.cursor_x - 1] ELSE pn
    [] byte = 9 -> terminal_tab_forward(pn, 1)
    [] byte = 10 -> IndexDown([pn EXCEPT !.cursor_x = 0])
    [] byte = 11 \/ byte = 12 -> IndexDown([pn EXCEPT !.cursor_x = 0])
    [] byte = 13 -> [pn EXCEPT !.cursor_x = 0]
    [] byte = 14 -> [pn EXCEPT !.using_g1 = TRUE]
    [] byte = 15 -> [pn EXCEPT !.using_g1 = FALSE]
    [] byte = 132 -> IndexDown(pn)
    [] byte = 133 -> IndexDown([pn EXCEPT !.cursor_x = 0])
    [] byte = 136 -> terminal_set_tab_stop(pn)
    [] byte = 141 -> IndexUp(pn)
    [] OTHER -> pn


(***************************************************************************)
(* The perform vtable.  A slot holds NULL, a stub that only lets the call  *)
(* be observed ("default"), the screen's handler ("enhanced"), or a        *)
(* wrapper that does both ("test", as test_print wraps enhanced_print).    *)
(* No handler reads or writes panel->parser and the parser reads nothing   *)
(* of the panel but the vtable, so the calls made through non-NULL slots   *)
(* during one vte_parser_advance are queued in order in m.events, each     *)
(* with the index i of the byte being processed and the parser state at    *)
(* the call, and RunHandlers applies them to the panel in that order.      *)
(***************************************************************************)
vte_default_perform ==
  [print |-> "default", execute |-> "default", csi_dispatch |-> "default",
   esc_dispatch |-> "default", osc_dispatch |-> "default", hook |-> "default",
   put |-> "default", unhook |-> "default"]

enhanced_perform ==
  [print |-> "enhanced", execute |-> "enhanced", csi_dispatch |-> "enhanced",
   esc_dispatch |-> "enhanced", osc_dispatch |-> "NULL", hook |-> "NULL",
   put |-> "NULL", unhook |-> "NULL"]

test_perform ==
  [print |-> "test", execute |-> "test", csi_dispatch |-> "test",
   esc_dispatch |-> "test", osc_dispatch |-> "NULL", hook |-> "NULL",
   put |-> "NULL", unhook |-> "NULL"]

Event(cb, byte, params, intermediates, ignore, osc, bell) ==
  [cb |-> cb, byte |-> byte, params |-> params,
   intermediates |-> intermediates, ignore |-> ignore, osc |-> osc,
   bell |-> bell, i |-> 0, at |-> "GROUND"]

EvPrint(codepoint) ==
  Event("print", codepoint, vte_params_init, <<>>, FALSE, <<>>, FALSE)
EvExecute(byte) ==
  Event("execute", byte, vte_params_init, <<>>, FALSE, <<>>, FALSE)
EvPut(byte) ==
  Event("put", byte, vte_params_init, <<>>, FALSE, <<>>, FALSE)
EvUnhook ==
  Event("unhook", 0, vte_params_init, <<>>, FALSE, <<>>, FALSE)

\* What the enhanced_* handler of the event's slot does to the panel.
ScreenHandler(pn, ev) ==
  CASE ev.cb = "print" -> enhanced_print(pn, ev.byte)
    [] ev.cb = "execute" -> enhanced_execute(pn, ev.byte)
    [] ev.cb = "csi_dispatch" ->
         enhanced_csi_dispatch(pn, ev.params, ev.intermediates,
                               Len(ev.intermediates), ev.ignore, ev.byte)
    [] ev.cb = "esc_dispatch" ->
         enhanced_esc_dispatch(pn, ev.intermediates, Len(ev.intermediates),
                               ev.ignore, ev.byte)
    [] OTHER -> pn

\* The handlers of the queued calls evs[k..], run in order on the panel.
RECURSIVE RunHandlers(_, _, _)
RunHandlers(pn, evs, k) ==
  IF k > Len(evs) THEN pn
  ELSE RunHandlers(IF pn.perform[evs[k].cb] \in {"enhanced", "test"}
                     THEN ScreenHandler(pn, evs[k])
                     ELSE pn,
                   evs, k + 1)

\* The queued calls whose slot lets the call be observed.
Observed(pn, evs) ==
  SelectSeq(evs, LAMBDA ev : pn.perform[ev.cb] \in {"default", "test"})

\* if (panel->perform.slot) panel->perform.slot(panel, ...);
Perform(m, ev) ==
  IF m.panel.perform[ev.cb] = "NULL" THEN m
  ELSE [m EXCEPT !.events = Append(@, [ev EXCEPT !.i = m.i,
                                                 !.at = m.parser.state])]

(***************************************************************************)
(* The parser (vte_parser_t).  m is the pair the C functions take, parser  *)
(* and panel, with the calls queued so far and the index i of the byte     *)
(* being processed.                                                        *)
(***************************************************************************)
vte_parser_init ==
  [state |-> "GROUND",
   params |-> vte_params_init,
   current_param |-> 0,
   intermediates |-> <<>>,
   intermediate_idx |-> 0,
   osc_raw |-> <<>>,
   osc_raw_len |-> 0,
   osc_params |-> <<>>,
   osc_num_params |-> 0,
   partial_utf8_len |-> 0,
   ignoring |-> FALSE]

\* vte_reset_params without the reset of current_param and ignoring.
vte_reset_params_partial(ps) ==
  [ps EXCEPT !.intermediate_idx = 0,
             !.intermediates = <<>>,
             !.params = vte_params_clear(@)]

vte_reset_params(ps) ==
  [ps EXCEPT !.intermediate_idx = 0,
             !.intermediates = <<>>,
             !.ignoring = FALSE,
             !.current_param = 0,
             !.params = vte_params_clear(@)]

\* vte_action_collect without the test of intermediate_idx.
vte_action_collect_unchecked(ps, byte) ==
  [ps EXCEPT !.intermediates = Append(@, byte), !.intermediate_idx = @ + 1]

\* vte_action_collect dropping the extra byte without setting ignoring.
vte_action_collect_silent(ps, byte) ==
  IF ps.intermediate_idx >= VTE_MAX_INTERMEDIATES
    THEN ps
    ELSE [ps EXCEPT !.intermediates = Append(@, byte),
                    !.intermediate_idx = @ + 1]

vte_action_collect(ps, byte) ==
  IF ps.intermediate_idx >= VTE_MAX_INTERMEDIATES
    THEN [ps EXCEPT !.ignoring = TRUE]
    ELSE [ps EXCEPT !.intermediates = Append(@, byte),
                    !.intermediate_idx = @ + 1]

vte_action_param(ps) ==
  IF vte_params_is_full(ps.params)
    THEN [ps EXCEPT !.ignoring = TRUE]
    ELSE [ps EXCEPT !.params = vte_params_push(@, ps.current_param),
                    !.current_param = 0]

vte_action_subparam(ps) ==
  IF vte_params_is_full(ps.params)
    THEN [ps EXCEPT !.ignoring = TRUE]
    ELSE [ps EXCEPT !.params = vte_params_extend(@, ps.current_param),
                    !.current_param = 0]

\* vte_action_paramnext with the sum reduced modulo 2^16 and no saturation.
vte_action_paramnext_wrapping(ps, byte) ==
  IF vte_params_is_full(ps.params) THEN [ps EXCEPT !.ignoring = TRUE]
  ELSE [ps EXCEPT !.current_param = (@ * 10 + (byte - 48)) % (UINT16_MAX + 1)]

vte_action_paramnext(ps, byte) ==
  IF vte_params_is_full(ps.params)
    THEN [ps EXCEPT !.ignoring = TRUE]
    ELSE LET digit == byte - 48 IN
         IF ps.current_param <= (UINT16_MAX - digit) \div 10
           THEN [ps EXCEPT !.current_param = (@ * 10 + digit) % (UINT16_MAX + 1)]
           ELSE [ps EXCEPT !.current_param = UINT16_MAX]

\* The parameters pushed for a dispatch: the current one too, unless full.
DispatchParams(ps) ==
  IF ~vte_params_is_full(ps.params)
    THEN vte_params_push(ps.params, ps.current_param)
    ELSE ps.params

vte_action_csi_dispatch(m, byte) ==
  LET m1 == [m EXCEPT !.parser.params = DispatchParams(m.parser)]
      m2 == Perform(m1, Event("csi_dispatch", byte, m1.parser.params,
                              m1.parser.intermediates, m1.parser.ignoring,
                              <<>>, FALSE))
  IN [m2 EXCEPT !.parser.state = "GROUND"]

vte_action_esc_dispatch(m, byte) ==
  LET m2 == Perform(m, Event("esc_dispatch", byte, vte_params_init,
                             m.parser.intermediates, m.parser.ignoring,
                             <<>>, FALSE))
  IN [m2 EXCEPT !.parser.state = "GROUND"]

vte_action_hook(m, byte) ==
  LET m1 == [m EXCEPT !.parser.params = DispatchParams(m.parser)]
      m2 == Perform(m1, Event("hook", byte, m1.parser.params,
                              m1.parser.intermediates, m1.parser.ignoring,
                              <<>>, FALSE))
  IN [m2 EXCEPT !.parser.state = "DCS_PASSTHROUGH"]

vte_action_osc_put(ps, byte) ==
  IF ps.osc_raw_len < VTE_MAX_OSC_RAW
    THEN [ps EXCEPT !.osc_raw = Append(@, byte), !.osc_raw_len = @ + 1]
    ELSE ps

vte_action_osc_put_param(ps) ==
  IF ps.osc_num_params >= VTE_MAX_OSC_PARAMS THEN ps
  ELSE
    LET idx == ps.osc_raw_len
        start == IF ps.osc_num_params = 0 THEN 0
                 ELSE ps.osc_params[ps.osc_num_params].end
    IN [ps EXCEPT !.osc_params = Append(@, [start |-> start, end |-> idx]),
                  !.osc_num_params = @ + 1]

\* vte_osc_end reporting every terminator as BEL.
vte_osc_end_bell(m, byte) ==
  LET ps == vte_action_osc_put_param(m.parser)
      m1 == [m EXCEPT !.parser = ps]
      osc == [i \in 1..ps.osc_num_params |->
                SubSeq(ps.osc_raw, ps.osc_params[i].start + 1,
                       ps.osc_params[i].end)]
      m2 == IF ps.osc_num_params > 0
              THEN Perform(m1, Event("osc_dispatch", byte, vte_params_init,
                                     <<>>, FALSE, osc, TRUE))
              ELSE m1
  IN [m2 EXCEPT !.parser.osc_raw_len = 0,
                !.parser.osc_raw = <<>>,
                !.parser.osc_num_params = 0,
                !.parser.osc_params = <<>>]

vte_osc_end(m, byte) ==
  LET ps == vte_action_osc_put_param(m.parser)
      m1 == [m EXCEPT !.parser = ps]
      osc == [i \in 1..ps.osc_num_params |->
                SubSeq(ps.osc_raw, ps.osc_params[i].start + 1,
                       ps.osc_params[i].end)]
      m2 == IF ps.osc_num_params > 0
              THEN Perform(m1, Event("osc_dispatch", byte, vte_params_init,
                                     <<>>, FALSE, osc, byte = 7))
              ELSE m1
  IN [m2 EXCEPT !.parser.osc_raw_len = 0,
                !.parser.osc_raw = <<>>,
                !.parser.osc_num_params = 0,
                !.parser.osc_params = <<>>]

\* vte_anywhere with CAN/SUB executed but the state left as it is.
vte_anywhere_no_ground(m, byte) ==
  IF byte = 24 \/ byte = 26
    THEN Perform(m, EvExecute(byte))
  ELSE IF byte = 27
    THEN [m EXCEPT !.parser = [vte_reset_params(@) EXCEPT !.state = "ESCAPE"]]
  ELSE m

vte_anywhere(m, byte) ==
  IF byte = 24 \/ byte = 26
    THEN [Perform(m, EvExecute(byte)) EXCEPT !.parser.state = "GROUND"]
  ELSE IF byte = 27
    THEN [m EXCEPT !.parser = [vte_reset_params(@) EXCEPT !.state = "ESCAPE"]]
  ELSE m

\* case 0x00 ... 0x17: case 0x19: case 0x1C ... 0x1F:
IsC0(byte) ==
  (byte >= 0 /\ byte <= 23) \/ byte = 25 \/ (byte >= 28 /\ byte <= 31)

InRange(byte, lo, hi) == byte >= lo /\ byte <= hi

SetState(m, s) == [m EXCEPT !.parser.state = s]


(***************************************************************************)
(* The per-state functions: one byte in a state other than GROUND.         *)
(***************************************************************************)
vte_advance_escape(m, byte) ==
  CASE IsC0(byte) -> Perform(m, EvExecute(byte))
    [] InRange(byte, 32, 47) ->
         SetState([m EXCEPT !.parser = vte_action_collect(@, byte)],
                  "ESCAPE_INTERMEDIATE")
    [] InRange(byte, 48, 79) \/ InRange(byte, 81, 87) \/ InRange(byte, 89, 90)
       \/ byte = 92 \/ InRange(byte, 96, 126) ->
         vte_action_esc_dispatch(m, byte)
    [] byte = 80 ->
         SetState([m EXCEPT !.parser = vte_reset_params(@)], "DCS_ENTRY")
    [] byte = 88 \/ byte = 94 \/ byte = 95 -> SetState(m, "SOS_PM_APC_STRING")
    [] byte = 91 ->
         SetState([m EXCEPT !.parser = vte_reset_params(@)], "CSI_ENTRY")
    [] byte = 93 ->
         SetState([m EXCEPT !.parser.osc_raw_len = 0,
                            !.parser.osc_raw = <<>>,
                            !.parser.osc_num_params = 0,
                            !.parser.osc_params = <<>>], "OSC_STRING")
    [] OTHER -> vte_anywhere(m, byte)

vte_advance_csi_entry(m, byte) ==
  CASE IsC0(byte) -> Perform(m, EvExecute(byte))
    [] InRange(byte, 32, 47) ->
         SetState([m EXCEPT !.parser = vte_action_collect(@, byte)],
                  "CSI_INTERMEDIATE")
    [] InRange(byte, 48, 57) ->
         SetState([m EXCEPT !.parser = vte_action_paramnext(@, byte)],
                  "CSI_PARAM")
    [] byte = 58 ->
         SetState([m EXCEPT !.parser = vte_action_subparam(@)], "CSI_PARAM")
    [] byte = 59 ->
         SetState([m EXCEPT !.parser = vte_action_param(@)], "CSI_PARAM")
    [] InRange(byte, 60, 63) ->
         SetState([m EXCEPT !.parser = vte_action_collect(@, byte)],
                  "CSI_PARAM")
    [] InRange(byte, 64, 126) -> vte_action_csi_dispatch(m, byte)
    [] OTHER -> vte_anywhere(m, byte)

vte_advance_csi_param(m, byte) ==
  CASE IsC0(byte) -> Perform(m, EvExecute(byte))
    [] InRange(byte, 32, 47) ->
         SetState([m EXCEPT !.parser = vte_action_collect(@, byte)],
                  "CSI_INTERMEDIATE")
    [] InRange(byte, 48, 57) ->
         [m EXCEPT !.parser = vte_action_paramnext(@, byte)]
    [] byte = 58 -> [m EXCEPT !.parser = vte_action_subparam(@)]
    [] byte = 59 -> [m EXCEPT !.parser = vte_action_param(@)]
    [] InRange(byte, 60, 63) -> SetState(m, "CSI_IGNORE")
    [] InRange(byte, 64, 126) -> vte_action_csi_dispatch(m, byte)
    [] byte = 127 -> m
    [] OTHER -> vte_anywhere(m, byte)

vte_advance_escape_intermediate(m, byte) ==
  CASE IsC0(byte) -> Perform(m, EvExecute(byte))
    [] InRange(byte, 32, 47) ->
         [m EXCEPT !.parser = vte_action_collect(@, byte)]
    [] InRange(byte, 48, 126) -> vte_action_esc_dispatch(m, byte)
    [] OTHER -> vte_anywhere(m, byte)

vte_advance_csi_intermediate(m, byte) ==
  CASE IsC0(byte) -> Perform(m, EvExecute(byte))
    [] InRange(byte, 32, 47) ->
         [m EXCEPT !.parser = vte_action_collect(@, byte)]
    [] InRange(byte, 64, 126) -> vte_action_csi_dispatch(m, byte)
    [] byte = 127 -> m
    [] OTHER -> vte_anywhere(m, byte)

vte_advance_csi_ignore(m, byte) ==
  CASE IsC0(byte) -> Perform(m, EvExecute(byte))
    [] InRange(byte, 64, 126) -> SetState(m, "GROUND")
    [] byte = 127 -> m
    [] OTHER -> vte_anywhere(m, byte)

vte_advance_dcs_entry(m, byte) ==
  CASE IsC0(byte) -> m
    [] InRange(byte, 32, 47) ->
         SetState([m EXCEPT !.parser = vte_action_collect(@, byte)],
                  "DCS_INTERMEDIATE")
    [] InRange(byte, 48, 57) ->
         SetState([m EXCEPT !.parser = vte_action_paramnext(@, byte)],
                  "DCS_PARAM")
    [] byte = 58 ->
         SetState([m EXCEPT !.parser = vte_action_subparam(@)], "DCS_PARAM")
    [] byte = 59 ->
         SetState([m EXCEPT !.parser = vte_action_param(@)], "DCS_PARAM")
    [] InRange(byte, 60, 63) ->
         SetState([m EXCEPT !.parser = vte_action_collect(@, byte)],
                  "DCS_PARAM")
    [] InRange(byte, 64, 126) -> vte_action_hook(m, byte)
    [] OTHER -> vte_anywhere(m, byte)

vte_advance_dcs_param(m, byte) ==
  CASE IsC0(byte) -> m
    [] InRange(byte, 32, 47) ->
         SetState([m EXCEPT !.parser = vte_action_collect(@, byte)],
                  "DCS_INTERMEDIATE")
    [] InRange(byte, 48, 57) ->
         [m EXCEPT !.parser = vte_action_paramnext(@, byte)]
    [] byte = 58 -> [m EXCEPT !.parser = vte_action_subparam(@)]
    [] byte = 59 -> [m EXCEPT !.parser = vte_action_param(@)]
    [] InRange(byte, 60, 63) -> SetState(m, "DCS_IGNORE")
    [] InRange(byte, 64, 126) -> vte_action_hook(m, byte)
    [] byte = 127 -> m
    [] OTHER -> vte_anywhere(m, byte)

vte_advance_dcs_intermediate(m, byte) ==
  CASE IsC0(byte) -> m
    [] InRange(byte, 32, 47) ->
         [m EXCEPT !.parser = vte_action_collect(@, byte)]
    [] InRange(byte, 64, 126) -> vte_action_hook(m, byte)
    [] byte = 127 -> m
    [] OTHER -> vte_anywhere(m, byte)

\* vte_advance_dcs_passthrough with CAN/SUB executed before the unhook.
vte_advance_dcs_passthrough_late_unhook(m, byte) ==
  CASE IsC0(byte) -> Perform(m, EvPut(byte))
    [] byte = 24 \/ byte = 26 ->
         SetState(Perform(Perform(m, EvExecute(byte)), EvUnhook), "GROUND")
    [] byte = 27 ->
         LET m1 == Perform(m, EvUnhook) IN
         SetState([m1 EXCEPT !.parser = vte_reset_params(@)], "ESCAPE")
    [] InRange(byte, 32, 126) -> Perform(m, EvPut(byte))
    [] byte = 127 -> m
    [] byte = 156 -> SetState(Perform(m, EvUnhook), "GROUND")
    [] OTHER -> Perform(m, EvPut(byte))

vte_advance_dcs_passthrough(m, byte) ==
  CASE IsC0(byte) -> Perform(m, EvPut(byte))
    [] byte = 24 \/ byte = 26 ->
         SetState(Perform(Perform(m, EvUnhook), EvExecute(byte)), "GROUND")
    [] byte = 27 ->
         LET m1 == Perform(m, EvUnhook) IN
         SetState([m1 EXCEPT !.parser = vte_reset_params(@)], "ESCAPE")
    [] InRange(byte, 32, 126) -> Perform(m, EvPut(byte))
    [] byte = 127 -> m
    [] byte = 156 -> SetState(Perform(m, EvUnhook), "GROUND")
    [] OTHER -> Perform(m, EvPut(byte))

\* vte_advance_dcs_ignore and vte_advance_sos_pm_apc_string have the same body.
StringIgnore(m, byte) ==
  CASE IsC0(byte) -> m
    [] byte = 24 \/ byte = 26 ->
         SetState(Perform(m, EvExecute(byte)), "GROUND")
    [] byte = 27 ->
         SetState([m EXCEPT !.parser = vte_reset_params(@)], "ESCAPE")
    [] InRange(byte, 32, 127) -> m
    [] byte = 156 -> SetState(m, "GROUND")
    [] OTHER -> vte_anywhere(m, byte)

vte_advance_dcs_ignore(m, byte) == StringIgnore(m, byte)

vte_advance_sos_pm_apc_string(m, byte) == StringIgnore(m, byte)

\* vte_advance_osc_string with ESC handled as CAN and SUB are.
vte_advance_osc_string_esc_executes(m, byte) ==
  CASE InRange(byte, 0, 6) \/ InRange(byte, 8, 23) \/ byte = 25
       \/ InRange(byte, 28, 31) -> m
    [] byte = 7 -> SetState(vte_osc_end(m, byte), "GROUND")
    [] byte = 24 \/ byte = 26 \/ byte = 27 ->
         SetState(Perform(vte_osc_end(m, byte), EvExecute(byte)), "GROUND")
    [] byte = 59 -> [m EXCEPT !.parser = vte_action_osc_put_param(@)]
    [] OTHER -> [m EXCEPT !.parser = vte_action_osc_put(@, byte)]

vte_advance_osc_string(m, byte) ==
  CASE InRange(byte, 0, 6) \/ InRange(byte, 8, 23) \/ byte = 25
       \/ InRange(byte, 28, 31) -> m
    [] byte = 7 -> SetState(vte_osc_end(m, byte), "GROUND")
    [] byte = 24 \/ byte = 26 ->
         SetState(Perform(vte_osc_end(m, byte), EvExecute(byte)), "GROUND")
    [] byte = 27 ->
         LET m1 == vte_osc_end(m, byte) IN
         SetState([m1 EXCEPT !.parser = vte_reset_params(@)], "ESCAPE")
    [] byte = 59 -> [m EXCEPT !.parser = vte_action_osc_put_param(@)]
    [] OTHER -> [m EXCEPT !.parser = vte_action_osc_put(@, byte)]

\* The switch (parser->state) of vte_parser_advance.
StateStep(m, byte) ==
  CASE m.parser.state = "ESCAPE" -> vte_advance_escape(m, byte)
    [] m.parser.state = "ESCAPE_INTERMEDIATE" ->
         vte_advance_escape_intermediate(m, byte)
    [] m.parser.state = "CSI_ENTRY" -> vte_advance_csi_entry(m, byte)
    [] m.parser.state = "CSI_PARAM" -> vte_advance_csi_param(m, byte)
    [] m.parser.state = "CSI_INTERMEDIATE" ->
         vte_advance_csi_intermediate(m, byte)
    [] m.parser.state = "CSI_IGNORE" -> vte_advance_csi_ignore(m, byte)
    [] m.parser.state = "DCS_ENTRY" -> vte_advance_dcs_entry(m, byte)
    [] m.parser.state = "DCS_PARAM" -> vte_advance_dcs_param(m, byte)
    [] m.parser.state = "DCS_INTERMEDIATE" ->
         vte_advance_dcs_intermediate(m, byte)
    [] m.parser.state = "DCS_PASSTHROUGH" ->
         vte_advance_dcs_passthrough(m, byte)
    [] m.parser.state = "DCS_IGNORE" -> vte_advance_dcs_ignore(m, byte)
    [] m.parser.state = "OSC_STRING" -> vte_advance_osc_string(m, byte)
    [] m.parser.state = "SOS_PM_APC_STRING" ->
         vte_advance_sos_pm_apc_string(m, byte)
    [] OTHER -> vte_anywhere(m, byte)

(***************************************************************************)
(* GROUND and the main loop.  data is the slice of one call, 1-based; the  *)
(* C index k is data[k + 1].  A read at an index outside the slice is a    *)
(* read past the caller's buffer: it is recorded in overrun and yields an  *)
(* unspecified byte.                                                       *)
(***************************************************************************)
ReadByte(data, k) == IF k >= 0 /\ k < Len(data) THEN data[k + 1] ELSE 0

\* The bytes &bytes[i] .. &bytes[i + n - 1] of the slice.
ReadBytes(data, i, n) == [k \in 1..n |-> ReadByte(data, i + k - 1)]

\* Utf8Unusable without the test of the bytes left in the slice.
Utf8Unusable_no_length_test(char_len, i, len) == char_len = 0

\* if (char_len == 0 || i + char_len > len): invalid or incomplete UTF-8.
Utf8Unusable(char_len, i, len) == char_len = 0 \/ i + char_len > len

\* The while loop of vte_advance_ground over the len bytes of data from C
\* index base on; the result carries *processed.
RECURSIVE GroundLoop(_, _, _, _, _, _)
GroundLoop(m, data, base, len, i, overrun) ==
  IF i >= len THEN [m |-> m, processed |-> len, overrun |-> overrun]
  ELSE
    LET byte == ReadByte(data, base + i)
        mi == [m EXCEPT !.i = base + i]
    IN
    IF byte = 27
      THEN [m |-> [m EXCEPT !.parser =
                      [vte_reset_params(@) EXCEPT !.state = "ESCAPE"]],
            processed |-> i + 1, overrun |-> overrun]
    ELSE IF byte >= 128 THEN
      LET char_len == vte_utf8_char_len(byte) IN
      IF Utf8Unusable(char_len, i, len)
        THEN GroundLoop(Perform(mi, EvPrint(REPLACEMENT)), data, base, len,
                        i + 1, overrun)
        ELSE GroundLoop(
               Perform(mi, EvPrint(vte_utf8_decode(
                                    ReadBytes(data, base + i, char_len),
                                    char_len))),
               data, base, len, i + char_len,
               overrun \/ base + i + char_len > Len(data))
    ELSE IF byte >= 32 /\ byte <= 126
      THEN GroundLoop(Perform(mi, EvPrint(byte)), data, base, len, i + 1,
                      overrun)
    ELSE GroundLoop(Perform(mi, EvExecute(byte)), data, base, len, i + 1,
                    overrun)

vte_advance_ground(m, data, base, len) == GroundLoop(m, data, base, len, 0, FALSE)

\* The while loop of vte_parser_advance; r is [m, i, overrun, stalled].  A
\* pass that consumed nothing is recorded in stalled and ends the evaluation
\* (the C loop would spin).
RECURSIVE AdvanceLoop(_, _, _, _)
AdvanceLoop(m, data, i, overrun) ==
  IF i >= Len(data)
    THEN [m |-> m, i |-> i, overrun |-> overrun, stalled |-> FALSE]
  ELSE IF m.parser.state = "GROUND" THEN
    LET g == vte_advance_ground(m, data, i, Len(data) - i) IN
    IF g.processed <= 0
      THEN [m |-> g.m, i |-> i, overrun |-> overrun \/ g.overrun,
            stalled |-> TRUE]
      ELSE AdvanceLoop(g.m, data, i + g.processed, overrun \/ g.overrun)
  ELSE AdvanceLoop(StateStep([m EXCEPT !.i = i], ReadByte(data, i)), data,
                   i + 1, overrun)

\* vte_parser_advance starting every call in GROUND.
vte_parser_advance_from_ground(ps, pn, data) ==
  LET r == AdvanceLoop([parser |-> [ps EXCEPT !.state = "GROUND"],
                        panel |-> pn, events |-> <<>>, i |-> 0],
                       data, 0, FALSE)
  IN [r EXCEPT !.m.panel = RunHandlers(pn, r.m.events, 1),
               !.m.events = Observed(pn, r.m.events)]

vte_parser_advance(ps, pn, data) ==
  LET r == AdvanceLoop([parser |-> ps, panel |-> pn, events |-> <<>>,
                        i |-> 0], data, 0, FALSE)
  IN [r EXCEPT !.m.panel = RunHandlers(pn, r.m.events, 1),
               !.m.events = Observed(pn, r.m.events)]


(***************************************************************************)
(* Construction and the feed operation.                                    *)
(***************************************************************************)
\* init_panel_screen: every cell a blank with the default pen, then
\* vte_parser_init, the perform table and terminal_panel_init.
init_panel_screen(width, height, perform) ==
  terminal_panel_init(
    [screen |-> [row \in 0..(height - 1) |-> [col \in 0..(width - 1) |->
                   [codepoint |-> 32, fg_color |-> -1, bg_color |-> -1,
                    attrs |-> 0]]],
     screen_width |-> width, screen_height |-> height,
     cursor_x |-> 0, cursor_y |-> 0,
     saved_cursor_x |-> 0, saved_cursor_y |-> 0,
     scroll_top |-> 0, scroll_bottom |-> 0,
     g0_charset |-> "CHARSET_ASCII", g1_charset |-> "CHARSET_ASCII",
     using_g1 |-> FALSE, modes |-> InitModes, tab_stops |-> {},
     fg_color |-> 0, bg_color |-> 0, attrs |-> 0,
     saved_fg_color |-> 0, saved_bg_color |-> 0, saved_attrs |-> 0,
     perform |-> perform],
    width, height)

\* hooked: a hook has been called and no unhook since; bracket_ok: no unhook
\* or put was called while not hooked and no hook while hooked.
RECURSIVE HookFold(_, _, _)
HookFold(h, evs, k) ==
  IF k > Len(evs) THEN h
  ELSE LET cb == evs[k].cb IN
       HookFold(
         [open |-> IF cb = "hook" THEN TRUE
                   ELSE IF cb = "unhook" THEN FALSE ELSE h.open,
          bracket_ok |-> /\ h.bracket_ok
                         /\ (cb = "hook" => ~h.open)
                         /\ (cb \in {"unhook", "put"} => h.open)],
         evs, k + 1)

InitObservers ==
  /\ events = <<>>
  /\ run = [len |-> 0, i |-> 0, overrun |-> FALSE, stalled |-> FALSE,
            from |-> "GROUND", data |-> <<>>]
  /\ stream = <<>>
  /\ calls = <<>>
  /\ hooked = [open |-> FALSE, bracket_ok |-> TRUE]

\* One call vte_parser_advance(&panel->parser, panel, data, len), observed
\* in run.
Advance(data) ==
  \E r \in {vte_parser_advance(parser, panel, data)} :
    /\ parser' = r.m.parser
    /\ panel' = r.m.panel
    /\ events' = r.m.events
    /\ run' = [len |-> Len(data), i |-> r.i, overrun |-> r.overrun,
               stalled |-> r.stalled, from |-> parser.state, data |-> data]
    /\ hooked' = HookFold(hooked, r.m.events, 1)

\* The same call with run left as it is.
Handle(data) ==
  \E r \in {vte_parser_advance(parser, panel, data)} :
    /\ parser' = r.m.parser
    /\ panel' = r.m.panel
    /\ events' = r.m.events
    /\ hooked' = HookFold(hooked, r.m.events, 1)
    /\ UNCHANGED run

(***************************************************************************)
(* Parser specification: the parser under vte_default_perform, fed single  *)
(* bytes of every class of the state functions' switches and multi-byte    *)
(* slices (UTF-8 sequences, whole and cut).  Parameter lists and OSC       *)
(* bodies are short here; SpecOverflow feeds the long ones.                *)
(***************************************************************************)
MaxParamSlots == 1
MaxOscBody == 1

ParserBytes ==
  {7, 10, 24, 26, 27, 32, 57, 58, 59, 63, 65, 80, 88, 91, 92, 93, 127, 156,
   169, 195, 255}

Utf8Slices ==
  {<<195, 169>>, <<226, 130, 172>>, <<226, 130>>, <<240, 159, 152, 128>>,
   <<195, 65>>, <<65, 195>>, <<195, 27>>, <<27, 91>>}

\* Which single bytes the environment offers in a parser state: everything,
\* except that separators, digits and ':' come only in the first parameter
\* slots and an OSC body is short and made of 'A', ';' and 0x9C.
Offered(ps, b) ==
  IF ps.state = "OSC_STRING"
    THEN \/ b \in {7, 10, 24, 26, 27}
         \/ (b \in {59, 65, 156} /\ ps.osc_raw_len + ps.osc_num_params < MaxOscBody)
    ELSE b \in {57, 58, 59} => ps.params.len < MaxParamSlots

FeedByte(b) ==
  /\ Offered(parser, b)
  /\ Advance(<<b>>)
  /\ UNCHANGED <<stream, calls>>

FeedSlice(s) ==
  /\ parser.state # "OSC_STRING"
  /\ Advance(s)
  /\ UNCHANGED <<stream, calls>>

InitParser ==
  /\ parser = vte_parser_init
  /\ panel = init_panel_screen(1, 2, vte_default_perform)
  /\ InitObservers

NextParser ==
  \/ \E b \in ParserBytes : FeedByte(b)
  \/ \E s \in Utf8Slices : FeedSlice(s)

SpecParser == InitParser /\ [][NextParser]_vars

(***************************************************************************)
(* Overflow specification: the parser under vte_default_perform, fed       *)
(* parameter lists, intermediates and OSC bodies past the buffer limits.   *)
(* An OSC body grows by single bytes near the ends of the buffer and by    *)
(* chunks of OscChunk bytes in between.                                    *)
(***************************************************************************)
OscChunk == 64
MaxOscSingles == 2

OverflowBytes == {7, 24, 27, 32, 59, 65, 80, 91, 92, 93}

OverflowOffered(ps, b) ==
  ps.state = "OSC_STRING" =>
    \/ b \in {7, 24, 27}
    \/ (b = 65 /\ (ps.osc_raw_len < MaxOscSingles
                   \/ ps.osc_raw_len >= VTE_MAX_OSC_RAW - MaxOscSingles))
    \/ (b = 59 /\ (ps.osc_raw_len = 0
                   \/ ps.osc_raw_len >= VTE_MAX_OSC_RAW))

FeedOverflowByte(b) ==
  /\ OverflowOffered(parser, b)
  /\ Advance(<<b>>)
  /\ UNCHANGED <<stream, calls>>

FeedOscChunk ==
  /\ parser.state = "OSC_STRING"
  /\ Advance([k \in 1..OscChunk |-> 65])
  /\ UNCHANGED <<stream, calls>>

NextOverflow ==
  \/ \E b \in OverflowBytes : FeedOverflowByte(b)
  \/ FeedOscChunk

SpecOverflow == InitParser /\ [][NextOverflow]_vars

(***************************************************************************)
(* Screen specification: a panel built by init_panel_screen with           *)
(* enhanced_perform, fed one whole sequence per call.  A CSI sequence is   *)
(* followed by ST (ESC \), whose esc_dispatch enhanced_esc_dispatch        *)
(* ignores and whose ESC clears the parser's parameters, so every state is *)
(* the screen as one print, execute, csi_dispatch or esc_dispatch left it. *)
(* The only character printed is a space with the default attributes, and  *)
(* the tab stops stay those of terminal_panel_init.                        *)
(***************************************************************************)
MaxWidth == 2
MaxHeight == 3

ScreenSizes == {<<1, 2>>, <<MaxWidth, MaxHeight>>}

\* Parameter strings: none, "0", "2", "9", "1;2", "2;1", "2;3".
ScreenParams ==
  {<<>>, <<48>>, <<50>>, <<57>>, <<49, 59, 50>>, <<50, 59, 49>>,
   <<50, 59, 51>>}

\* A B C D E F G H I J K L M P S T X Z @ d f r s u
ScreenFinals ==
  {65, 66, 67, 68, 69, 70, 71, 72, 73, 74, 75, 76, 77, 80, 83, 84, 88, 90,
   64, 100, 102, 114, 115, 117}

\* ESC 7, 8, D, E, M, c
ScreenEscFinals == {55, 56, 68, 69, 77, 99}

\* BS HT LF CR
ScreenControls == {8, 9, 10, 13}

\* DECOM (?6) and DECAWM (?7)
ScreenModes == {54, 55}

FeedCsi(ps, final) ==
  /\ Handle(<<27, 91>> \o ps \o <<final, 27, 92>>)
  /\ UNCHANGED <<stream, calls>>

FeedMode(mode, final) ==
  /\ Handle(<<27, 91, 63, mode, final, 27, 92>>)
  /\ UNCHANGED <<stream, calls>>

FeedEsc(final) ==
  /\ Handle(<<27, final>>)
  /\ UNCHANGED <<stream, calls>>

FeedControl(b) ==
  /\ Handle(<<b>>)
  /\ UNCHANGED <<stream, calls>>

FeedSpace ==
  /\ Handle(<<32>>)
  /\ UNCHANGED <<stream, calls>>

InitScreen ==
  /\ parser = vte_parser_init
  /\ \E sz \in ScreenSizes :
        panel = init_panel_screen(sz[1], sz[2], enhanced_perform)
  /\ InitObservers

NextScreen ==
  \/ \E ps \in ScreenParams, final \in ScreenFinals : FeedCsi(ps, final)
  \/ \E mode \in ScreenModes, final \in {104, 108} : FeedMode(mode, final)
  \/ \E final \in ScreenEscFinals : FeedEsc(final)
  \/ \E b \in ScreenControls : FeedControl(b)
  \/ FeedSpace

SpecScreen == InitScreen /\ [][NextScreen]_vars

(***************************************************************************)
(* Slice specification: a panel under test_perform is fed a byte stream in *)
(* slices; stream is the concatenation of the slices fed and calls the     *)
(* callbacks made over all the calls.                                      *)
(***************************************************************************)
MaxSlice == 2
MaxStream == 4

\* ESC [ 2 B A, LF, ; and the two bytes of U+00E9
SliceBytes == {27, 91, 50, 66, 65, 10, 59, 195, 169}

Slices == UNION {[1..n -> SliceBytes] : n \in 1..MaxSlice}

\* A callback without the position of its byte in its slice.
Unplaced(evs) == [k \in 1..Len(evs) |-> [evs[k] EXCEPT !.i = 0]]

InitSlicePanel == init_panel_screen(MaxWidth, MaxHeight, test_perform)

FeedRecorded(s) ==
  /\ Len(stream) + Len(s) <= MaxStream
  /\ Advance(s)
  /\ stream' = stream \o s
  /\ calls' = calls \o Unplaced(events')

InitSlices ==
  /\ parser = vte_parser_init
  /\ panel = InitSlicePanel
  /\ InitObservers

NextSlices == \E s \in Slices : FeedRecorded(s)

SpecSlices == InitSlices /\ [][NextSlices]_vars

(***************************************************************************)
(* Parameter specification: the parser under vte_default_perform is fed a  *)
(* CSI or DCS introducer and then, one byte per call, the digits,          *)
(* separators and final byte of a parameter list; stream is the bytes fed   *)
(* since the introducer.  Short lists are fed byte by byte; a list past    *)
(* the 32 slots starts with a run of VTE_MAX_PARAMS - 1 separators fed in  *)
(* one call.                                                               *)
(***************************************************************************)
MaxDigits == 6
MaxFieldBytes == 4
MaxTail == 3

\* ESC [ and ESC P
ParamIntroducers == {<<27, 91>>, <<27, 80>>}

\* '3' '5' '6'
ParamDigits == {51, 53, 54}

\* ':' ';'
ParamSeparators == {58, 59}

\* 'm'
ParamFinal == 109

ParamStates == {"CSI_ENTRY", "CSI_PARAM", "DCS_ENTRY", "DCS_PARAM"}

SeparatorRun(sep) == [k \in 1..(VTE_MAX_PARAMS - 1) |-> sep]

\* Whether one more byte of the list is offered after the bytes fed so far:
\* digits up to MaxDigits bytes, separators within the first MaxFieldBytes,
\* and MaxTail bytes of either kind after a run of separators.
ParamOffered(b) ==
  IF Len(stream) >= VTE_MAX_PARAMS - 1
    THEN Len(stream) < VTE_MAX_PARAMS - 1 + MaxTail
    ELSE Len(stream) < (IF b \in ParamSeparators THEN MaxFieldBytes
                                                   ELSE MaxDigits)

FeedIntroducer(intro) ==
  /\ Advance(intro)
  /\ stream' = <<>>
  /\ UNCHANGED calls

FeedParamByte(b) ==
  /\ parser.state \in ParamStates
  /\ ParamOffered(b)
  /\ Advance(<<b>>)
  /\ stream' = Append(stream, b)
  /\ UNCHANGED calls

FeedSeparatorRun(sep) ==
  /\ parser.state \in {"CSI_ENTRY", "DCS_ENTRY"}
  /\ stream = <<>>
  /\ Advance(SeparatorRun(sep))
  /\ stream' = SeparatorRun(sep)
  /\ UNCHANGED calls

FeedFinal ==
  /\ parser.state \in ParamStates
  /\ Advance(<<ParamFinal>>)
  /\ stream' = Append(stream, ParamFinal)
  /\ UNCHANGED calls

NextParams ==
  \/ \E intro \in ParamIntroducers : FeedIntroducer(intro)
  \/ \E b \in ParamDigits \cup ParamSeparators : FeedParamByte(b)
  \/ \E sep \in ParamSeparators : FeedSeparatorRun(sep)
  \/ FeedFinal

SpecParams == InitParser /\ [][NextParams]_vars


(***************************************************************************)
(* Pen specification: a panel under enhanced_perform is fed SGR sequences, *)
(* one whole sequence per call, the letter 'A' and CR.  The letter is      *)
(* printed in the first column only, so the grid holds one printed cell.   *)
(***************************************************************************)
MaxPenWidth == 2

\* fields joined by the separator sep: the parameter bytes of a sequence.
RECURSIVE Joined(_, _)
Joined(fields, sep) ==
  IF Len(fields) = 0 THEN <<>>
  ELSE IF Len(fields) = 1 THEN fields[1]
  ELSE fields[1] \o <<sep>> \o Joined(Tail(fields), sep)

\* 38 5 3, 48 5 3 and 38 2 200 0 0 as parameter fields.
ExtendedColours ==
  {<<(<<51, 56>>), (<<53>>), (<<51>>)>>,
   <<(<<52, 56>>), (<<53>>), (<<51>>)>>,
   <<(<<51, 56>>), (<<50>>), (<<50, 48, 48>>), (<<48>>), (<<48>>)>>}

\* 1, 31, 44 and 91 as parameter fields.
PlainSgr == {<<(<<49>>)>>, <<(<<51, 49>>)>>, <<(<<52, 52>>)>>, <<(<<57, 49>>)>>}

\* Lists that end with the parameter 0 or are empty:
\* none, 0, 1;0, 31;44;0, 38;5;3;0.
ResetLists ==
  {<<>>, <<(<<48>>)>>, <<(<<49>>), (<<48>>)>>,
   <<(<<51, 49>>), (<<52, 52>>), (<<48>>)>>,
   <<(<<51, 56>>), (<<53>>), (<<51>>), (<<48>>)>>}

Sgr(fields, sep) == <<27, 91>> \o Joined(fields, sep) \o <<109>>

SgrSequences ==
  {Sgr(f, 59) : f \in ExtendedColours \cup PlainSgr \cup ResetLists}
  \cup {Sgr(f, 58) : f \in ExtendedColours}

FeedSgr(seq) ==
  /\ Advance(seq)
  /\ UNCHANGED <<stream, calls>>

FeedLetter ==
  /\ panel.cursor_x = 0
  /\ Handle(<<65>>)
  /\ UNCHANGED <<stream, calls>>

FeedReturn ==
  /\ Handle(<<13>>)
  /\ UNCHANGED <<stream, calls>>

InitPen ==
  /\ parser = vte_parser_init
  /\ panel = init_panel_screen(MaxPenWidth, 2, enhanced_perform)
  /\ InitObservers

NextPen ==
  \/ \E seq \in SgrSequences : FeedSgr(seq)
  \/ FeedLetter
  \/ FeedReturn

SpecPen == InitPen /\ [][NextPen]_vars


(***************************************************************************)
(* Container specification: the calls test_parameter_parsing makes on a    *)
(* vte_params_t, here the parser's own container: vte_params_push,         *)
(* vte_params_extend and vte_params_clear.  stream is the calls made since *)
(* the container was last empty.  The first MaxMixedOps calls are any mix  *)
(* with any of the values; later calls repeat the last operation, each     *)
(* with its own value, up to one call past the 32 slots.                   *)
(***************************************************************************)
MaxMixedOps == 3

ContainerValues == {0, 42, UINT16_MAX}

ContainerOffered(op, value) ==
  IF Len(stream) < MaxMixedOps
    THEN value \in ContainerValues
    ELSE /\ Len(stream) <= VTE_MAX_PARAMS
         /\ op = stream[Len(stream)].op
         /\ value = Len(stream)

ParamsPush(value) ==
  /\ ContainerOffered("push", value)
  /\ parser' = [parser EXCEPT !.params = vte_params_push(@, value)]
  /\ stream' = Append(stream, [op |-> "push", value |-> value])
  /\ UNCHANGED <<panel, events, run, calls, hooked>>

ParamsExtend(value) ==
  /\ ContainerOffered("extend", value)
  /\ parser' = [parser EXCEPT !.params = vte_params_extend(@, value)]
  /\ stream' = Append(stream, [op |-> "extend", value |-> value])
  /\ UNCHANGED <<panel, events, run, calls, hooked>>

ParamsClear ==
  /\ stream # <<>>
  /\ parser' = [parser EXCEPT !.params = vte_params_clear(@)]
  /\ stream' = <<>>
  /\ UNCHANGED <<panel, events, run, calls, hooked>>

NextContainer ==
  \/ \E value \in ContainerValues \cup 1..VTE_MAX_PARAMS : ParamsPush(value)
  \/ \E value \in ContainerValues \cup 1..VTE_MAX_PARAMS : ParamsExtend(value)
  \/ ParamsClear

SpecContainer == InitParser /\ [][NextContainer]_vars


(***************************************************************************)
(* Grid specification: a panel under enhanced_perform with a grid whose    *)
(* cells all differ.  The first call feeds a whole preparation: auto-wrap  *)
(* reset, every row filled with its own letters in a red pen, then the pen *)
(* GridPen, a scrolling region, a cursor position and the origin and       *)
(* auto-wrap modes.  The calls after it feed one sequence each.  stream is *)
(* the log of the calls made: the bytes fed and the panel each call found. *)
(* After the preparation comes any sequence of GridOps; a third call       *)
(* follows a save (any sequence), an unfinished sequence or a setting      *)
(* (ESC c) or CSI 1 L (CSI 1 M); a fourth and a fifth call are restores    *)
(* after a save.                                                           *)
(***************************************************************************)
GridWidth == 3
GridHeight == 3

\* The decimal digits of n < 100.
RECURSIVE Decimal(_)
Decimal(n) ==
  IF n < 10 THEN <<48 + n>> ELSE Decimal(n \div 10) \o <<48 + (n % 10)>>

\* ESC [ n1 ; n2 ; ... final
Csi(ns, final) ==
  <<27, 91>> \o Joined([k \in 1..Len(ns) |-> Decimal(ns[k])], 59) \o <<final>>

\* ESC [ ? mode h or ESC [ ? mode l
DecMode(mode, set) ==
  <<27, 91, 63>> \o Decimal(mode) \o <<IF set THEN 104 ELSE 108>>

\* The letter the preparation prints in a cell: 'A' in the first cell, then
\* on in row-major order.
FillLetter(row, col) == 65 + row * GridWidth + col

\* CSI row+1 ; 1 H and the letters of the row, for the rows from row on.
RECURSIVE FillRows(_)
FillRows(row) ==
  IF row >= GridHeight THEN <<>>
  ELSE Csi(<<row + 1, 1>>, 72)
       \o [k \in 1..GridWidth |-> FillLetter(row, k - 1)]
       \o FillRows(row + 1)

\* The SGR parameters of the pen the preparation leaves: 1;32;44, bold green
\* on blue.
GridPen == <<1, 32, 44>>

\* The valid scrolling regions, as the parameters of CSI r.
GridRegions == {<<p1, p2>> \in (1..GridHeight) \X (1..GridHeight) : p1 < p2}

GridPositions == (0..(GridHeight - 1)) \X (0..(GridWidth - 1))

Preparation(region, pos, origin, wrap) ==
  DecMode(7, FALSE) \o Csi(<<31>>, 109) \o FillRows(0)
  \o Csi(GridPen, 109) \o Csi(region, 114)
  \o Csi(<<pos[1] + 1, pos[2] + 1>>, 72)
  \o DecMode(6, origin) \o DecMode(7, wrap)

Preparations ==
  {Preparation(region, pos, origin, wrap) :
     region \in GridRegions, pos \in GridPositions,
     origin \in BOOLEAN, wrap \in BOOLEAN}

\* ESC [ s and ESC 7; ESC [ u and ESC 8; ESC c.
Saves == {Csi(<<>>, 115), <<27, 55>>}
Restores == {Csi(<<>>, 117), <<27, 56>>}
Ris == <<27, 99>>

\* Sequences cut before their end: ESC [ 5, ESC ] 0 and ESC P 1.
Unfinished == {<<27, 91, 53>>, <<27, 93, 48>>, <<27, 80, 49>>}

\* ESC H (a tab stop at the cursor), SO, ESC ( 0 and CSI 4 h (insert mode).
Settings == {<<27, 72>>, <<14>>, <<27, 40, 48>>, Csi(<<4>>, 104)}

InsertLine == Csi(<<1>>, 76)
DeleteLine == Csi(<<1>>, 77)

\* LF VT FF
LineFeeds == {<<10>>, <<11>>, <<12>>}

\* The letter 'z'.
Letter == <<122>>

\* CSI J, CSI 0 J .. CSI 3 J
EraseDisplays == {Csi(<<>>, 74)} \cup {Csi(<<n>>, 74) : n \in 0..3}

\* CSI n @ and CSI n P, up to one more than the width.
InsertChars == {Csi(<<n>>, 64) : n \in 1..(GridWidth + 1)}
DeleteChars == {Csi(<<n>>, 80) : n \in 1..(GridWidth + 1)}

\* CSI p1 ; p2 r, valid and invalid.
RegionParams == (1..GridHeight) \X (1..(GridHeight + 1))
SetRegions == {Csi(ps, 114) : ps \in RegionParams}

\* CSI H, CSI 1 B, CSI 1 C, CSI 7 m
Moves == {Csi(<<>>, 72), Csi(<<1>>, 66), Csi(<<1>>, 67), Csi(<<7>>, 109)}

GridOps ==
  Saves \cup Restores \cup {Ris} \cup Unfinished \cup Settings
  \cup {InsertLine, DeleteLine}
  \cup LineFeeds \cup {Letter} \cup EraseDisplays \cup InsertChars
  \cup DeleteChars \cup SetRegions \cup Moves

GridOffered(data) ==
  CASE Len(stream) = 1 -> TRUE
    [] Len(stream) = 2 ->
         \/ stream[2].data \in Saves
         \/ stream[2].data \in Unfinished \cup Settings /\ data = Ris
         \/ stream[2].data = InsertLine /\ data = DeleteLine
    [] Len(stream) = 3 -> stream[2].data \in Saves /\ data \in Restores
    [] Len(stream) = 4 -> stream[2].data \in Saves /\ data = stream[4].data
    [] OTHER -> FALSE

Prepare(data) ==
  /\ stream = <<>>
  /\ Advance(data)
  /\ stream' = <<[data |-> data, panel |-> panel]>>
  /\ UNCHANGED calls

FeedGridOp(data) ==
  /\ GridOffered(data)
  /\ Advance(data)
  /\ stream' = Append(stream, [data |-> data, panel |-> panel])
  /\ UNCHANGED calls

InitGrid ==
  /\ parser = vte_parser_init
  /\ panel = init_panel_screen(GridWidth, GridHeight, enhanced_perform)
  /\ InitObservers

NextGrid ==
  \/ \E data \in Preparations : Prepare(data)
  \/ \E data \in GridOps : FeedGridOp(data)

SpecGrid == InitGrid /\ [][NextGrid]_vars


(***************************************************************************)
(* Tab specification: a panel under enhanced_perform, wide enough for the  *)
(* tab stop of column 8 to lie inside the grid, is fed HT, ESC H, CSI g    *)
(* with no parameter, 0 and 3, cursor moves (one column right, first       *)
(* column, second row) and ESC c, after a letter printed in the first      *)
(* cell.  stream holds the last call only: the bytes fed and the panel the *)
(* call found.  ESC H is fed with the cursor on one of TabColumns.         *)
(***************************************************************************)
TabWidth == 10

\* The columns on which ESC H is fed.
TabColumns == {3, 5}

Ht == <<9>>
SetTabStop == <<27, 72>>
ClearTabStops == {Csi(<<>>, 103), Csi(<<0>>, 103), Csi(<<3>>, 103)}

\* CSI 1 C, CR and CSI 2 d.
TabMoves == {Csi(<<1>>, 67), <<13>>, Csi(<<2>>, 100)}

TabOps == {Ht, SetTabStop, Letter, Ris} \cup ClearTabStops \cup TabMoves

TabOffered(data) ==
  /\ data = SetTabStop => panel.cursor_x \in TabColumns
  /\ data = Letter <=> stream = <<>>

FeedTabOp(data) ==
  /\ TabOffered(data)
  /\ Advance(data)
  /\ stream' = <<[data |-> data, panel |-> panel]>>
  /\ UNCHANGED calls

InitTabs ==
  /\ parser = vte_parser_init
  /\ panel = init_panel_screen(TabWidth, 2, enhanced_perform)
  /\ InitObservers

NextTabs == \E data \in TabOps : FeedTabOp(data)

SpecTabs == InitTabs /\ [][NextTabs]_vars


(***************************************************************************)
(* Charset specification: a panel under enhanced_perform is fed up to      *)
(* MaxDesignations charset controls, one per call (ESC ( 0, ESC ( B,       *)
(* ESC ) 0, ESC ) B, SO, SI), and then CR and one printable ASCII byte in  *)
(* one call, which is printed in the first cell.  stream is the controls   *)
(* fed.                                                                    *)
(***************************************************************************)
MaxDesignations == 3

Designations ==
  {<<27, 40, 48>>, <<27, 40, 66>>, <<27, 41, 48>>, <<27, 41, 66>>,
   <<14>>, <<15>>}

Printable == 32..126

Designate(seq) ==
  /\ Len(stream) < MaxDesignations
  /\ run.len # 2
  /\ Advance(seq)
  /\ stream' = Append(stream, seq)
  /\ UNCHANGED calls

PrintByte(b) ==
  /\ run.len # 2
  /\ Advance(<<13, b>>)
  /\ UNCHANGED <<stream, calls>>

InitCharset ==
  /\ parser = vte_parser_init
  /\ panel = init_panel_screen(2, 1, enhanced_perform)
  /\ InitObservers

NextCharset ==
  \/ \E seq \in Designations : Designate(seq)
  \/ \E b \in Printable : PrintByte(b)

SpecCharset == InitCharset /\ [][NextCharset]_vars


(***************************************************************************)
(* Sequence specification: a panel of the size of the grid specification's *)
(* is fed one preparation and then one sequence of SequenceOps, each in    *)
(* one call.  stream is the log of the two calls, as in the grid           *)
(* specification.                                                          *)
(***************************************************************************)
\* 38 ; 5 ; n and 48 ; 5 ; n, 38 ; 2 ; r ; g ; b and 48 ; 2 ; r ; g ; b,
\* alone and followed by 4 or by 45 ; 9.
ColourIndexes == {0, 7, 200, 255}
Channels == {0, 127, 128}
ColourTails == {<<>>, <<4>>, <<45, 9>>}
IndexedColours ==
  {<<target, 5, n>> : target \in {38, 48}, n \in ColourIndexes}
RgbColours ==
  {<<target, 2, r, g, b>> :
     target \in {38, 48}, r \in Channels, g \in Channels, b \in Channels}
ColourSgr ==
  {Csi(colour \o tail, 109) :
     colour \in IndexedColours \cup RgbColours, tail \in ColourTails}

\* CSI A, B, E, F, d, H and f, with no parameter and with each row count
\* from 0 to past the height; H and f also with a column.
RowFinals == {65, 66, 69, 70, 100, 72, 102}
RowMoves ==
  {Csi(ns, final) :
     ns \in {<<>>} \cup {<<n>> : n \in 0..(GridHeight + 1)},
     final \in RowFinals}
  \cup {Csi(<<n, 2>>, final) : n \in 0..(GridHeight + 1), final \in {72, 102}}

\* CSI sequences with a final byte that enhanced_csi_dispatch has no case
\* for (W ` c n q t ~), with no, one and two parameters.
UnknownFinals ==
  {Csi(ns, final) :
     ns \in {<<>>, <<1>>, <<2, 3>>}, final \in {87, 96, 99, 110, 113, 116, 126}}

\* SGR values the switch of case 'm' has no case for, alone and before and
\* after the value 4.
UnknownSgrValues == {6, 10, 21, 26, 50, 89, 98, 99, 108, 255}
UnknownSgr == {Csi(<<v>>, 109) : v \in UnknownSgrValues}
UnknownSgrUnderline ==
  {Csi(<<v, 4>>, 109) : v \in UnknownSgrValues}
  \cup {Csi(<<4, v>>, 109) : v \in UnknownSgrValues}

\* Mode numbers neither set has (0, 3, 5, 99, 1000), ANSI modes in
\* DEC private sequences and DEC private modes in ANSI sequences; alone and
\* before and after a mode the set has (ANSI 4, DEC private 25).
UnknownAnsiModes == {0, 1, 3, 5, 6, 7, 25, 99, 1000, 2004}
UnknownDecModes == {0, 3, 4, 5, 12, 20, 99, 1000}
Modes(private, ns, set) ==
  <<27, 91>> \o (IF private THEN <<63>> ELSE <<>>)
  \o Joined([k \in 1..Len(ns) |-> Decimal(ns[k])], 59)
  \o <<IF set THEN 104 ELSE 108>>
UnknownModes ==
  {Modes(FALSE, <<v>>, set) : v \in UnknownAnsiModes, set \in BOOLEAN}
  \cup {Modes(TRUE, <<v>>, set) : v \in UnknownDecModes, set \in BOOLEAN}
UnknownModesInsert ==
  [set \in BOOLEAN |->
     {Modes(FALSE, <<v, 4>>, set) : v \in UnknownAnsiModes}
     \cup {Modes(FALSE, <<4, v>>, set) : v \in UnknownAnsiModes}]
UnknownModesVisible ==
  [set \in BOOLEAN |->
     {Modes(TRUE, <<v, 25>>, set) : v \in UnknownDecModes}
     \cup {Modes(TRUE, <<25, v>>, set) : v \in UnknownDecModes}]
UnknownAlone == UnknownFinals \cup UnknownSgr \cup UnknownModes
UnknownOps ==
  UnknownAlone \cup UnknownSgrUnderline
  \cup UnknownModesInsert[TRUE] \cup UnknownModesInsert[FALSE]
  \cup UnknownModesVisible[TRUE] \cup UnknownModesVisible[FALSE]

\* CSI L and M, CSI S and T, with no parameter and with each count from 0
\* to past the height; LF, VT, FF, ESC D, ESC E, ESC M and a letter.
LineCounts == {<<>>} \cup {<<n>> : n \in 0..(GridHeight + 1)}
InsertDeleteLines == {Csi(ns, final) : ns \in LineCounts, final \in {76, 77}}
RegionScrolls == {Csi(ns, final) : ns \in LineCounts, final \in {83, 84}}
Indexes == {<<27, 68>>, <<27, 69>>, <<27, 77>>}
ScrollOps ==
  InsertDeleteLines \cup RegionScrolls \cup LineFeeds \cup Indexes
  \cup {Letter}

\* Sequences dispatched with ignore set: CSI sequences with three
\* intermediates or with more separators than VTE_MAX_PARAMS, for every
\* final byte enhanced_csi_dispatch has a case for, and ESC sequences with
\* three intermediates, for the final bytes of enhanced_esc_dispatch.
CsiCases ==
  (65..77) \cup {80, 83, 84, 88, 90, 64, 100, 102, 103, 104, 108, 109, 114,
                 115, 117}
EscCases == {55, 56, 99, 68, 69, 72, 77, 61, 62, 48, 65}
IgnoredOps ==
  {<<27, 91>> \o Joined([k \in 1..Len(ns) |-> Decimal(ns[k])], 59)
     \o <<33, 33, 33, final>> :
     ns \in {<<>>, <<4>>, <<2, 3>>}, final \in CsiCases}
  \cup {<<27, 91>> \o [k \in 1..(VTE_MAX_PARAMS + 1) |-> 59] \o <<final>> :
          final \in CsiCases}
  \cup {<<27, 40, 40, 40, final>> : final \in EscCases}

\* ESC sequences with one intermediate, ( ) or #, and a final byte of the
\* designation table (0 4 7 = A B E H Q Z) or another one enhanced_esc_dispatch
\* has a case for (8 > D M c).
DesignationFinals == {48, 52, 55, 61, 65, 66, 69, 72, 81, 90}
IntermediateEscs ==
  {<<27, intermediate, final>> :
     intermediate \in {40, 41, 35},
     final \in DesignationFinals \cup {56, 62, 68, 77, 99}}

\* CSI n J with n above 3 and CSI n K with n above 2.
UnknownErases ==
  {Csi(<<n>>, 74) : n \in {4, 5, 9, 99}}
  \cup {Csi(<<n>>, 75) : n \in {3, 4, 5, 99}}

SequenceOps ==
  ColourSgr \cup RowMoves \cup UnknownOps \cup ScrollOps \cup IgnoredOps
  \cup IntermediateEscs \cup UnknownErases

FeedSequence(data) ==
  /\ Len(stream) = 1
  /\ Advance(data)
  /\ stream' = Append(stream, [data |-> data, panel |-> panel])
  /\ UNCHANGED calls

NextSequence ==
  \/ \E data \in Preparations : Prepare(data)
  \/ \E data \in SequenceOps : FeedSequence(data)

\* The panel is under test_perform, so that events holds the callbacks of
\* the last call.
InitSequence ==
  /\ parser = vte_parser_init
  /\ panel = init_panel_screen(GridWidth, GridHeight, test_perform)
  /\ InitObservers

SpecSequence == InitSequence /\ [][NextSequence]_vars


(***************************************************************************)
(* Properties of the screen.                                               *)
(***************************************************************************)
\* C1: on a grid with width >= 1 and height >= 2, after every print,
\* execute, csi_dispatch and esc_dispatch the screen handles,
\* 0 <= cursor_x < screen_width and 0 <= cursor_y < screen_height.
CursorBounds ==
  (panel.screen_width >= 1 /\ panel.screen_height >= 2) =>
    /\ 0 <= panel.cursor_x
    /\ panel.cursor_x < panel.screen_width
    /\ 0 <= panel.cursor_y
    /\ panel.cursor_y < panel.screen_height

\* The cursor stands in the last cell of the larger grid, below a scrolling
\* region that ends above the last row, with origin mode set and auto-wrap
\* reset.
CursorBoundsWitness ==
  /\ panel.screen_width = MaxWidth
  /\ panel.cursor_x = panel.screen_width - 1
  /\ panel.cursor_y = panel.screen_height - 1
  /\ panel.scroll_bottom < panel.cursor_y
  /\ panel.modes.origin_mode
  /\ ~panel.modes.auto_wrap

\* C2: on a grid with height >= 2, in every state reached by feeding
\* sequences, CSI r with valid and invalid parameters and ESC c among them,
\* 0 <= scroll_top < scroll_bottom < screen_height.
ScrollRegion ==
  panel.screen_height >= 2 =>
    /\ 0 <= panel.scroll_top
    /\ panel.scroll_top < panel.scroll_bottom
    /\ panel.scroll_bottom < panel.screen_height

\* CSI r has moved the top of the region off the first row, and the cursor
\* has since left the home position.
ScrollRegionWitness ==
  /\ panel.screen_height = MaxHeight
  /\ panel.scroll_top = 1
  /\ panel.scroll_bottom = panel.screen_height - 1
  /\ panel.cursor_x = panel.screen_width - 1

(***************************************************************************)
(* Properties of slicing.                                                  *)
(***************************************************************************)
\* The machine after one call of vte_parser_advance with the whole stream.
Whole == vte_parser_advance(vte_parser_init, InitSlicePanel, stream).m

\* C3: however the stream is cut into slices, the callbacks made over the
\* calls and the screen they leave are those of one call with the whole
\* stream.
SliceInvariance ==
  /\ calls = Unplaced(Whole.events)
  /\ panel = Whole.panel

(***************************************************************************)
(* Properties of the parser.                                               *)
(***************************************************************************)
CallsOf(cb) == {k \in 1..Len(events) : events[k].cb = cb}

\* The last call fed the single byte b.
FedByte(b) == run.data = <<b>>

\* C4: in every reachable parser state params.len <= 32, intermediate_idx
\* <= 2, osc_raw_len <= 1024 and osc_num_params <= 16, and each buffer holds
\* exactly as many entries as its length field says: a byte that would
\* overflow a buffer is dropped.
BufferBounds ==
  /\ parser.params.len <= VTE_MAX_PARAMS
  /\ Len(parser.params.params) = parser.params.len
  /\ parser.intermediate_idx <= VTE_MAX_INTERMEDIATES
  /\ Len(parser.intermediates) = parser.intermediate_idx
  /\ parser.osc_raw_len <= VTE_MAX_OSC_RAW
  /\ Len(parser.osc_raw) = parser.osc_raw_len
  /\ parser.osc_num_params <= VTE_MAX_OSC_PARAMS
  /\ Len(parser.osc_params) = parser.osc_num_params

\* An 'A' fed to a full OSC buffer was dropped.
BufferBoundsWitness ==
  /\ run.from = "OSC_STRING"
  /\ FedByte(65)
  /\ parser.osc_raw_len = VTE_MAX_OSC_RAW
  /\ parser.osc_num_params = VTE_MAX_OSC_PARAMS

\* C5: every call of vte_parser_advance on an N-byte slice returns with
\* i = N, every pass of its loop having consumed at least one byte and none
\* having read data[k] for k >= N, and leaves the parser in one of the 14
\* states.
Progress ==
  /\ run.i = run.len
  /\ ~run.stalled
  /\ ~run.overrun
  /\ parser.state \in States

\* A slice that ends inside a three-byte UTF-8 character was consumed whole.
ProgressWitness ==
  /\ run.data = <<226, 130>>
  /\ run.from = "GROUND"
  /\ run.i = 2
  /\ CallsOf("print") # {}

OscTermination ==
  /\ (run.from = "OSC_STRING" /\ FedByte(7)) =>
        /\ Len(events) = 1
        /\ events[1].cb = "osc_dispatch"
        /\ events[1].bell = TRUE
        /\ parser.state = "GROUND"
  /\ (run.from = "OSC_STRING" /\ FedByte(27)) =>
        /\ Len(events) = 1
        /\ events[1].cb = "osc_dispatch"
        /\ events[1].bell = FALSE
        /\ events[1].at = "OSC_STRING"
        /\ parser.state = "ESCAPE"
  /\ \A k \in CallsOf("osc_dispatch") :
        /\ events[k].at = "OSC_STRING"
        /\ \A j \in CallsOf("osc_dispatch") : events[j].i = events[k].i => j = k
  /\ parser.state # "OSC_STRING" =>
        parser.osc_raw_len = 0 /\ parser.osc_num_params = 0

\* An OSC string whose body filled the 1024-byte buffer was ended by ESC and
\* dispatched once.
OscTerminationWitness ==
  /\ run.from = "OSC_STRING"
  /\ FedByte(27)
  /\ Len(events) = 1
  /\ events[1].cb = "osc_dispatch"
  /\ Len(events[1].osc) = 1
  /\ Len(events[1].osc[1]) = VTE_MAX_OSC_RAW

\* C9: a 0x9C fed in OSC_STRING calls osc_dispatch once with
\* bell_terminated = false, is not appended to the OSC buffer and leaves the
\* parser in GROUND.
OscStringTerminator ==
  (run.from = "OSC_STRING" /\ FedByte(156)) =>
    /\ Cardinality(CallsOf("osc_dispatch")) = 1
    /\ \A k \in CallsOf("osc_dispatch") : events[k].bell = FALSE
    /\ parser.state = "GROUND"
    /\ parser.osc_raw_len = 0

\* C10: hook and unhook alternate starting with hook and put is called only
\* after a hook and before its unhook; a hook is open exactly while the
\* parser is in DCS_PASSTHROUGH, so every exit has called unhook; and each
\* unhook is called while the state is still DCS_PASSTHROUGH, once for its
\* byte and before any other call made for that byte.
DcsBracketing ==
  /\ hooked.bracket_ok
  /\ hooked.open <=> parser.state = "DCS_PASSTHROUGH"
  /\ \A k \in CallsOf("unhook") :
        /\ events[k].at = "DCS_PASSTHROUGH"
        /\ \A j \in 1..Len(events) :
             (j # k /\ events[j].i = events[k].i) =>
                (j > k /\ events[j].cb # "unhook")

\* CAN ended a DCS passthrough: unhook, then execute.
DcsBracketingWitness ==
  /\ run.from = "DCS_PASSTHROUGH"
  /\ FedByte(24)
  /\ Len(events) = 2
  /\ events[1].cb = "unhook"
  /\ events[2].cb = "execute"
  /\ ~hooked.open

\* The calls made for the byte at index i of the last slice.
CallsAt(i) == {k \in 1..Len(events) : events[k].i = i}

\* C11: processing one byte calls at most one of the perform callbacks,
\* whatever the parser state and the byte.
OneEventPerByte ==
  \A i \in 0..(run.len - 1) : Cardinality(CallsAt(i)) <= 1

\* C11 as the code has it: one byte calls at most one callback, except 0x18
\* and 0x1A in DCS_PASSTHROUGH, which call unhook and then execute, and in
\* OSC_STRING, which call osc_dispatch and then execute.
EventsPerByte ==
  \A i \in 0..(run.len - 1) :
    \/ Cardinality(CallsAt(i)) <= 1
    \/ \E k \in CallsAt(i) :
         /\ CallsAt(i) = {k, k + 1}
         /\ events[k + 1].cb = "execute"
         /\ events[k + 1].byte \in {24, 26}
         /\ \/ events[k].cb = "unhook" /\ events[k].at = "DCS_PASSTHROUGH"
            \/ events[k].cb = "osc_dispatch" /\ events[k].at = "OSC_STRING"
         /\ events[k + 1].at = events[k].at

\* SUB ended an OSC string: osc_dispatch, then execute, for the one byte.
EventsPerByteWitness ==
  /\ run.from = "OSC_STRING"
  /\ FedByte(26)
  /\ Len(events) = 2
  /\ events[1].cb = "osc_dispatch"
  /\ events[2].cb = "execute"
  /\ events[1].i = events[2].i

(***************************************************************************)
(* Properties of the UTF-8 decoder and of the parameter container.         *)
(***************************************************************************)
\* C12: in GROUND, a UTF-8 lead byte (0xC0..0xF7) followed in the same
\* slice by a byte that is no continuation byte prints U+FFFD for the lead
\* byte alone, and the following byte is handled by the GROUND rules: ESC
\* enters ESCAPE, a C0 control is executed, printable ASCII is printed.
MalformedUtf8 ==
  (/\ run.from = "GROUND"
   /\ run.len = 2
   /\ InRange(run.data[1], 192, 247)
   /\ ~InRange(run.data[2], 128, 191)) =>
    /\ Len(events) >= 1
    /\ events[1].cb = "print"
    /\ events[1].byte = REPLACEMENT
    /\ events[1].i = 0
    /\ run.data[2] = 27 => (Len(events) = 1 /\ parser.state = "ESCAPE")
    /\ InRange(run.data[2], 32, 126) =>
         /\ Len(events) = 2
         /\ events[2] = [EvPrint(run.data[2]) EXCEPT !.i = 1]
    /\ (run.data[2] < 32 /\ run.data[2] # 27) =>
         /\ Len(events) = 2
         /\ events[2] = [EvExecute(run.data[2]) EXCEPT !.i = 1]

\* The panel after ESC [ ps final is fed to the current parser and panel.
CsiEffect(ps, final) ==
  vte_parser_advance(parser, panel, <<27, 91>> \o ps \o <<final>>).m.panel

\* A B C D E F L M @ P X S T I Z
DefaultOneFinals == {65, 66, 67, 68, 69, 70, 76, 77, 64, 80, 88, 83, 84, 73, 90}

\* C13: for each of the finals A B C D E F L M @ P X S T I Z, the sequence
\* with its first parameter absent and the one with the explicit parameter 0
\* have the same effect on cursor and grid as the one with the parameter 1;
\* vte_params_get_single returns the default both for a missing parameter
\* and for a parameter of value 0.
DefaultParameter ==
  parser.state = "GROUND" =>
    /\ \A final \in DefaultOneFinals :
         /\ CsiEffect(<<>>, final) = CsiEffect(<<49>>, final)
         /\ CsiEffect(<<48>>, final) = CsiEffect(<<49>>, final)
    /\ vte_params_get_single(vte_params_init, 0, 1) = 1
    /\ vte_params_get_single(vte_params_push(vte_params_init, 0), 0, 1) = 1

\* The slice vte_params_get(p, index) hands out: subparam_count values.
ParamSlice(p, index) ==
  LET g == vte_params_get(p, index) IN SubSeq(g.values, 1, g.subparam_count)

\* The last call fed the final byte of a CSI sequence, which was dispatched.
CsiDispatched ==
  /\ run.from \in {"CSI_ENTRY", "CSI_PARAM"}
  /\ FedByte(ParamFinal)
  /\ Len(events) = 1
  /\ events[1].cb = "csi_dispatch"

\* C14: ESC [ a : b : c <final> delivers a csi_dispatch whose container has
\* exactly one primary, with the slice [a, b, c]; in ESC [ p ; a : b <final>
\* the values a, b form the second primary and are not attached to p.
SubparameterGrouping ==
  \A a, b, c \in ParamDigits :
    /\ stream = <<a, 58, b, 58, c, ParamFinal>> /\ run.from = "CSI_PARAM" =>
         /\ CsiDispatched
         /\ vte_params_len(events[1].params) = 1
         /\ ParamSlice(events[1].params, 0) = <<a - 48, b - 48, c - 48>>
    /\ stream = <<c, 59, a, 58, b, ParamFinal>> /\ run.from = "CSI_PARAM" =>
         /\ CsiDispatched
         /\ vte_params_len(events[1].params) = 2
         /\ ParamSlice(events[1].params, 0) = <<c - 48>>
         /\ ParamSlice(events[1].params, 1) = <<a - 48, b - 48>>

(***************************************************************************)
(* Properties of the pen.                                                  *)
(***************************************************************************)
\* C15: ESC [ 38 : 5 : n m sets the pen foreground to n and
\* ESC [ 48 : 5 : n m the pen background to n, and each colon form of an
\* extended colour (38:5:n, 48:5:n, 38:2:r:g:b) leaves the panel exactly as
\* its semicolon form does.
SgrColonForm ==
  /\ run.data = Sgr(<<(<<51, 56>>), (<<53>>), (<<51>>)>>, 58) =>
       panel.fg_color = 3
  /\ run.data = Sgr(<<(<<52, 56>>), (<<53>>), (<<51>>)>>, 58) =>
       panel.bg_color = 3
  /\ parser.state = "GROUND" =>
       \A f \in ExtendedColours :
         CsiEffect(Joined(f, 58), 109) = CsiEffect(Joined(f, 59), 109)

\* C20: from every pen state, ESC [ 0 m, ESC [ m and a longer SGR list
\* whose last parameter is 0 leave the pen at fg_color = -1, bg_color = -1,
\* attrs = 0, and a cell printed next carries that pen.
SgrResetIdentity ==
  run.data \in {Sgr(f, 59) : f \in ResetLists} =>
    /\ panel.fg_color = -1
    /\ panel.bg_color = -1
    /\ panel.attrs = 0
    /\ LET cell == enhanced_print(panel, 65).screen[panel.cursor_y][panel.cursor_x]
       IN cell = [codepoint |-> 65, fg_color |-> -1, bg_color |-> -1,
                  attrs |-> 0]

\* ESC [ 0 m was fed to a bold pen with both colours set, after a cell had
\* been printed with such a pen.
SgrResetIdentityWitness ==
  /\ run.data = Sgr(<<(<<48>>)>>, 59)
  /\ run.from = "GROUND"
  /\ panel.fg_color = -1
  /\ panel.attrs = 0
  /\ panel.screen[0][0].codepoint = 65
  /\ panel.screen[0][0].fg_color = 1
  /\ panel.screen[0][0].bg_color = 4
  /\ panel.screen[0][0].attrs = 1

(***************************************************************************)
(* Properties of the parameters.                                           *)
(***************************************************************************)
\* The calls made on the container are all op, but for the first first.
CallsAre(first, op) ==
  \A k \in 1..Len(stream) : stream[k].op = (IF k = 1 THEN first ELSE op)

\* C16: on an empty container, n <= 32 calls of vte_params_push give
\* vte_params_len = n with vte_params_get_single(i, d) the i-th pushed
\* value; one vte_params_push followed by k calls of vte_params_extend,
\* 1 + k <= 32, gives vte_params_len = 1 with vte_params_get(0) a slice of
\* the k + 1 values in call order.
ContainerApi ==
  LET n == Len(stream)
      p == parser.params
  IN
  /\ (n <= VTE_MAX_PARAMS /\ CallsAre("push", "push")) =>
       /\ vte_params_len(p) = n
       /\ \A i \in 0..(n - 1), d \in {0, 1} :
            vte_params_get_single(p, i, d) = stream[i + 1].value
  /\ (n >= 1 /\ n <= VTE_MAX_PARAMS /\ CallsAre("push", "extend")) =>
       /\ vte_params_len(p) = 1
       /\ vte_params_get(p, 0).found
       /\ ParamSlice(p, 0) = [k \in 1..n |-> stream[k].value]

\* One push and 31 extends filled the container with one parameter.
ContainerApiWitness ==
  /\ Len(stream) = VTE_MAX_PARAMS
  /\ CallsAre("push", "extend")
  /\ stream[1].value = 0
  /\ vte_params_get(parser.params, 0).subparam_count = VTE_MAX_PARAMS
  /\ vte_params_is_full(parser.params)

IsDigit(b) == InRange(b, 48, 57)

\* The digits that end the bytes fed since the introducer.
RECURSIVE DigitRun(_)
DigitRun(bytes) ==
  IF Len(bytes) = 0 \/ ~IsDigit(bytes[Len(bytes)]) THEN <<>>
  ELSE Append(DigitRun(SubSeq(bytes, 1, Len(bytes) - 1)), bytes[Len(bytes)])

RECURSIVE DecimalValue(_)
DecimalValue(digits) ==
  IF Len(digits) = 0 THEN 0
  ELSE 10 * DecimalValue(SubSeq(digits, 1, Len(digits) - 1))
       + (digits[Len(digits)] - 48)

Saturated(value) == IF value > UINT16_MAX THEN UINT16_MAX ELSE value

\* The last call fed a digit in a CSI or DCS parameter position.
DigitFed ==
  /\ run.from \in ParamStates
  /\ run.len = 1
  /\ IsDigit(run.data[1])
  /\ DigitRun(stream) # <<>>

\* C17: for every run of decimal digits in a CSI or DCS parameter position
\* current_param is min(decimal value of the run, 65535).
ParamSaturation ==
  DigitFed => parser.current_param = Saturated(DecimalValue(DigitRun(stream)))

\* C17 as the code has it: current_param is min(decimal value of the run,
\* 65535) while the container holds fewer than 32 values; once it holds 32
\* the digits are dropped, current_param stays 0 and ignoring is set.
ParamSaturationBelowLimit ==
  DigitFed =>
    IF vte_params_is_full(parser.params)
      THEN parser.current_param = 0 /\ parser.ignoring
      ELSE parser.current_param = Saturated(DecimalValue(DigitRun(stream)))

\* The run 65536 left current_param at 65535.
ParamSaturationBelowLimitWitness ==
  /\ DigitFed
  /\ stream = <<54, 53, 53, 51, 54>>
  /\ parser.state = "CSI_PARAM"
  /\ parser.current_param = UINT16_MAX

\* The number of ';' and ':' among the bytes.
RECURSIVE SeparatorCount(_)
SeparatorCount(bytes) ==
  IF Len(bytes) = 0 THEN 0
  ELSE SeparatorCount(Tail(bytes))
       + (IF Head(bytes) \in ParamSeparators THEN 1 ELSE 0)

\* C18: a CSI sequence that supplies more than 32 parameters, empty fields
\* included, has its final byte dispatched with ignore = true, and the
\* parser returns to GROUND.
TooManyParameters ==
  (/\ run.from \in {"CSI_ENTRY", "CSI_PARAM"}
   /\ FedByte(ParamFinal)
   /\ SeparatorCount(stream) + 1 > VTE_MAX_PARAMS) =>
    /\ CsiDispatched
    /\ events[1].ignore
    /\ parser.state = "GROUND"

\* The byte fed by the step, when the step is a call feeding one byte.
StepFeeds(lo, hi) == run'.len = 1 /\ InRange(run'.data[1], lo, hi)

\* A step that feeds an intermediate byte to a sequence holding two.
ExtraIntermediate ==
  /\ parser.state \in {"ESCAPE_INTERMEDIATE", "CSI_INTERMEDIATE"}
  /\ parser.intermediate_idx = VTE_MAX_INTERMEDIATES
  /\ StepFeeds(32, 47)

\* A step that feeds the final byte to a sequence whose extra intermediates
\* were dropped.
FinalAfterExtra ==
  /\ parser.ignoring
  /\ parser.intermediate_idx = VTE_MAX_INTERMEDIATES
  /\ \/ parser.state = "ESCAPE_INTERMEDIATE" /\ StepFeeds(48, 126)
     \/ parser.state = "CSI_INTERMEDIATE" /\ StepFeeds(64, 126)

\* C19: in an ESC or CSI sequence an intermediate byte after the second is
\* dropped and sets ignoring, and the final byte is then dispatched exactly
\* once, with ignore = true and the two intermediates kept, leaving the
\* parser in GROUND.
TooManyIntermediates ==
  [][/\ ExtraIntermediate =>
          /\ parser'.ignoring
          /\ parser'.intermediates = parser.intermediates
          /\ parser'.intermediate_idx = VTE_MAX_INTERMEDIATES
          /\ parser'.state = parser.state
          /\ events' = <<>>
     /\ FinalAfterExtra =>
          /\ Len(events') = 1
          /\ events'[1].cb = (IF parser.state = "CSI_INTERMEDIATE"
                                THEN "csi_dispatch" ELSE "esc_dispatch")
          /\ events'[1].byte = run'.data[1]
          /\ events'[1].ignore
          /\ events'[1].intermediates = parser.intermediates
          /\ Len(events'[1].intermediates) <= VTE_MAX_INTERMEDIATES
          /\ parser'.state = "GROUND"]_vars

\* An ESC sequence with three intermediates was dispatched, ignore set.
TooManyIntermediatesWitness ==
  /\ run.from = "ESCAPE_INTERMEDIATE"
  /\ FedByte(65)
  /\ Len(events) = 1
  /\ events[1].cb = "esc_dispatch"
  /\ events[1].ignore
  /\ events[1].intermediates = <<32, 32>>
  /\ parser.state = "GROUND"


(***************************************************************************)
(* Properties of the grid.                                                 *)
(***************************************************************************)
\* The panel the k-th call of the log left.
PanelLeft(k) == IF k < Len(stream) THEN stream[k + 1].panel ELSE panel

CursorPen(pn) ==
  <<pn.cursor_x, pn.cursor_y, pn.fg_color, pn.bg_color, pn.attrs>>

\* C21: when a save (ESC [ s or ESC 7) is followed, with no further save and
\* no ESC c in between, by a restore (ESC [ u or ESC 8), the restore leaves
\* cursor_x, cursor_y, fg_color, bg_color and attrs at the values they had
\* when the save was fed; a second restore leaves the same values.
SaveRestoreRoundTrip ==
  \A k, j \in 1..Len(stream) :
    ( /\ k < j
      /\ stream[k].data \in Saves
      /\ stream[j].data \in Restores
      /\ \A i \in (k + 1)..(j - 1) : stream[i].data \notin Saves \cup {Ris} )
    => CursorPen(PanelLeft(j)) = CursorPen(stream[k].panel)

\* A save with the bold pen in the last column, then a sequence that moved
\* the cursor to another row, then two restores.
SaveRestoreRoundTripWitness ==
  /\ Len(stream) = 5
  /\ stream[2].data \in Saves
  /\ stream[3].data \notin Saves \cup {Ris}
  /\ stream[4].panel.cursor_y # stream[2].panel.cursor_y
  /\ stream[4].data \in Restores
  /\ stream[5].data \in Restores
  /\ stream[2].panel.attrs = 1
  /\ stream[2].panel.cursor_x = GridWidth - 1
  /\ CursorPen(panel) = CursorPen(stream[2].panel)


\* The bytes fed by the last call of the log.
LastFed == stream[Len(stream)].data

\* The panel the last call of the log found.
Found == stream[Len(stream)].panel

\* A panel of the same dimensions and vtable as init_panel_screen leaves it.
Fresh == init_panel_screen(panel.screen_width, panel.screen_height,
                           panel.perform)

\* C22: once ESC c has been fed, whatever the panel held before, every
\* sequence of GridOps (and no sequence at all) leaves the panel as it
\* leaves a freshly constructed parser and panel of the same dimensions:
\* grid, cursor, pen, saved slot, scrolling region, tab stops, modes and
\* character sets are all fields of the panel.
ResetEquivalence ==
  (stream # <<>> /\ LastFed = Ris) =>
    \A data \in GridOps \cup {<<>>} :
      vte_parser_advance(parser, panel, data).m.panel
        = vte_parser_advance(vte_parser_init, Fresh, data).m.panel

\* ESC c was fed after ESC H, to a panel with a filled grid, a bold pen,
\* origin mode set, a scrolling region starting on the second row and a tab
\* stop in the last column.
ResetEquivalenceWitness ==
  /\ Len(stream) = 3
  /\ stream[2].data = <<27, 72>>
  /\ GridWidth - 1 \in Found.tab_stops
  /\ LastFed = Ris
  /\ Found.screen[0][0].codepoint = FillLetter(0, 0)
  /\ Found.attrs = 1
  /\ Found.modes.origin_mode
  /\ Found.scroll_top = 1
  /\ Found.cursor_x = GridWidth - 1
  /\ panel = Fresh


\* A row of blanks in the pen of pn.
Blanks(pn) == [col \in Cols(pn) |-> BlankCell(pn)]

\* The grid of pn with its scrolling region scrolled up by one line: the
\* rows of the region take the row below, its last row is blank.
RegionScrolledUp(pn) ==
  [row \in Rows(pn) |->
     IF row >= pn.scroll_top /\ row < pn.scroll_bottom
       THEN pn.screen[row + 1]
     ELSE IF row = pn.scroll_bottom THEN Blanks(pn)
     ELSE pn.screen[row]]

\* C23: LF, VT and FF leave cursor_x = 0; fed with the cursor on
\* scroll_bottom they scroll the region up by one line and leave cursor_y;
\* fed with the cursor on any other row, above, inside or below the region,
\* they leave cursor_y = min(cursor_y + 1, height - 1) and the grid as it
\* was.
LineFeed ==
  (stream # <<>> /\ LastFed \in LineFeeds) =>
    /\ panel.cursor_x = 0
    /\ IF Found.cursor_y = Found.scroll_bottom
         THEN /\ panel.cursor_y = Found.cursor_y
              /\ panel.screen = RegionScrolledUp(Found)
         ELSE /\ panel.cursor_y =
                   (IF Found.cursor_y + 1 > Found.screen_height - 1
                      THEN Found.screen_height - 1 ELSE Found.cursor_y + 1)
              /\ panel.screen = Found.screen


\* The panel pn with the letter of Letter written at the cursor in the pen
\* of pn, the cursor left where it was.
LetterWritten(pn) ==
  [pn EXCEPT !.screen[pn.cursor_y][pn.cursor_x] =
     [codepoint |-> Letter[1], fg_color |-> pn.fg_color,
      bg_color |-> pn.bg_color, attrs |-> pn.attrs]]

\* C24: a letter printed in the last column with auto-wrap set leaves the
\* cursor and the grid as LF leaves them when fed after the cell alone was
\* written, whatever the cursor row and the scrolling region; with
\* auto-wrap reset it leaves cursor_x = width - 1 and cursor_y, and changes
\* no cell but the written one.
RightMargin ==
  (stream # <<>> /\ LastFed = Letter
     /\ Found.cursor_x = Found.screen_width - 1) =>
    IF Found.modes.auto_wrap
      THEN LET lf == enhanced_execute(LetterWritten(Found), 10) IN
           /\ panel.screen = lf.screen
           /\ panel.cursor_x = lf.cursor_x
           /\ panel.cursor_y = lf.cursor_y
      ELSE /\ panel.screen = LetterWritten(Found).screen
           /\ panel.cursor_x = Found.screen_width - 1
           /\ panel.cursor_y = Found.cursor_y


(***************************************************************************)
(* Properties of the tab stops.                                            *)
(***************************************************************************)
\* The columns of pn right of its cursor that hold a tab stop.
StopsAhead(pn) == {c \in pn.tab_stops : pn.cursor_x < c /\ c < pn.screen_width}

RowMajor(pn, row, col) == row * pn.screen_width + col

\* The cells CSI n J is to blank, given the panel it is fed to.
InErasedPart(pn, n, row, col) ==
  CASE n = 0 -> RowMajor(pn, row, col) >= RowMajor(pn, pn.cursor_y, pn.cursor_x)
    [] n = 1 -> RowMajor(pn, row, col) <= RowMajor(pn, pn.cursor_y, pn.cursor_x)
    [] OTHER -> TRUE

\* C26: CSI 0 J blanks exactly the cells from the cursor to the end of the
\* grid in row-major order, CSI 1 J exactly the cells from the start of the
\* grid through the cursor, CSI 2 J and CSI 3 J every cell; a blanked cell
\* holds U+0020 in the current pen; every other cell, the cursor and the
\* pen are as they were.
EraseDisplay ==
  \A n \in 0..3 :
    (stream # <<>> /\ LastFed = Csi(<<n>>, 74)) =>
      /\ \A row \in Rows(Found), col \in Cols(Found) :
           panel.screen[row][col] =
             IF InErasedPart(Found, n, row, col)
               THEN [codepoint |-> 32, fg_color |-> Found.fg_color,
                     bg_color |-> Found.bg_color, attrs |-> Found.attrs]
               ELSE Found.screen[row][col]
      /\ CursorPen(panel) = CursorPen(Found)

\* CSI 1 J was fed with the cursor in the middle cell of a filled grid and a
\* bold green-on-blue pen: the cell after the cursor keeps its letter.
EraseDisplayWitness ==
  /\ Len(stream) = 2
  /\ LastFed = Csi(<<1>>, 74)
  /\ Found.cursor_y = 1
  /\ Found.cursor_x = 1
  /\ Found.attrs = 1
  /\ panel.screen[1][1] =
       [codepoint |-> 32, fg_color |-> 2, bg_color |-> 4, attrs |-> 1]
  /\ panel.screen[1][2].codepoint = FillLetter(1, 2)
  /\ panel.screen[0][GridWidth - 1].codepoint = 32


InRegion(pn) == pn.scroll_top <= pn.cursor_y /\ pn.cursor_y <= pn.scroll_bottom

\* C27: CSI 1 L fed with the cursor on a row r of the scrolling region
\* leaves row r blank and each of the rows r+1..scroll_bottom with the
\* former content of the row above it; CSI 1 M fed next leaves the rows
\* r..scroll_bottom-1 as they were before the insert and row scroll_bottom
\* blank.
InsertDeleteLine ==
  /\ (stream # <<>> /\ LastFed = InsertLine /\ InRegion(Found)) =>
       /\ panel.screen[Found.cursor_y] = Blanks(Found)
       /\ \A row \in (Found.cursor_y + 1)..Found.scroll_bottom :
            panel.screen[row] = Found.screen[row - 1]
  /\ (Len(stream) = 3 /\ stream[2].data = InsertLine /\ LastFed = DeleteLine
        /\ InRegion(stream[2].panel)) =>
       /\ \A row \in stream[2].panel.cursor_y..(Found.scroll_bottom - 1) :
            panel.screen[row] = stream[2].panel.screen[row]
       /\ panel.screen[Found.scroll_bottom] = Blanks(Found)

\* CSI 1 L and then CSI 1 M were fed with the cursor on the first row of a
\* filled grid whose scrolling region is its first two rows: the first row
\* is back, the second is blank, the third was never touched.
InsertDeleteLineWitness ==
  /\ Len(stream) = 3
  /\ stream[2].data = InsertLine
  /\ LastFed = DeleteLine
  /\ Found.cursor_y = 0
  /\ Found.scroll_bottom = 1
  /\ Found.screen[1][0].codepoint = FillLetter(0, 0)
  /\ panel.screen[0][0].codepoint = FillLetter(0, 0)
  /\ panel.screen[1][0].codepoint = 32
  /\ panel.screen[2][0].codepoint = FillLetter(2, 0)


\* C28: CSI n @ fed with the cursor on column x of row y, for n from 1 to
\* one more than the width: each column c >= x + n of row y holds the
\* former cell of column c - n, the columns from x up to x + n (or to the
\* end of the row) hold blanks in the current pen, and the columns below x,
\* every other row and the cursor are as they were.
InsertCharacters ==
  \A n \in 1..(GridWidth + 1) :
    (stream # <<>> /\ LastFed = Csi(<<n>>, 64)) =>
      /\ \A c \in Cols(Found) :
           panel.screen[Found.cursor_y][c] =
             IF c >= Found.cursor_x + n
               THEN Found.screen[Found.cursor_y][c - n]
             ELSE IF c >= Found.cursor_x THEN BlankCell(Found)
             ELSE Found.screen[Found.cursor_y][c]
      /\ \A row \in Rows(Found) \ {Found.cursor_y} :
           panel.screen[row] = Found.screen[row]
      /\ panel.cursor_x = Found.cursor_x
      /\ panel.cursor_y = Found.cursor_y

\* CSI 1 @ was fed with the cursor on the second column of the second row
\* of a filled grid and a bold green-on-blue pen: the first column is kept,
\* the second is blank, the third holds the letter of the second.
InsertCharactersWitness ==
  /\ Len(stream) = 2
  /\ LastFed = Csi(<<1>>, 64)
  /\ Found.cursor_y = 1
  /\ Found.cursor_x = 1
  /\ panel.screen[1][0].codepoint = FillLetter(1, 0)
  /\ panel.screen[1][1] =
       [codepoint |-> 32, fg_color |-> 2, bg_color |-> 4, attrs |-> 1]
  /\ panel.screen[1][2].codepoint = FillLetter(1, 1)


\* C29: CSI n P fed with the cursor on column x of row y, for n from 1 to
\* one more than the width: each column c with x <= c < width - n of row y
\* holds the former cell of column c + n, the other columns from x on hold
\* blanks in the current pen, and the columns below x, every other row and
\* the cursor are as they were, also when n > width - x.
DeleteCharacters ==
  \A n \in 1..(GridWidth + 1) :
    (stream # <<>> /\ LastFed = Csi(<<n>>, 80)) =>
      /\ \A c \in Cols(Found) :
           panel.screen[Found.cursor_y][c] =
             IF c < Found.cursor_x THEN Found.screen[Found.cursor_y][c]
             ELSE IF c < Found.screen_width - n
               THEN Found.screen[Found.cursor_y][c + n]
             ELSE BlankCell(Found)
      /\ \A row \in Rows(Found) \ {Found.cursor_y} :
           panel.screen[row] = Found.screen[row]
      /\ panel.cursor_x = Found.cursor_x
      /\ panel.cursor_y = Found.cursor_y


\* C30: CSI p1 ; p2 r with 1 <= p1 < p2 <= height leaves scroll_top =
\* p1 - 1, scroll_bottom = p2 - 1, cursor_x = 0 and cursor_y = 0, or
\* cursor_y = scroll_top in origin mode; with p1 >= p2 or p2 > height it
\* leaves the scrolling region, the cursor and the grid as they were.
SetScrollingRegion ==
  \A ps \in RegionParams :
    (stream # <<>> /\ LastFed = Csi(ps, 114)) =>
      IF ps[1] < ps[2] /\ ps[2] <= Found.screen_height
        THEN /\ panel.scroll_top = ps[1] - 1
             /\ panel.scroll_bottom = ps[2] - 1
             /\ panel.cursor_x = 0
             /\ panel.cursor_y =
                  (IF Found.modes.origin_mode THEN ps[1] - 1 ELSE 0)
        ELSE /\ panel.scroll_top = Found.scroll_top
             /\ panel.scroll_bottom = Found.scroll_bottom
             /\ panel.cursor_x = Found.cursor_x
             /\ panel.cursor_y = Found.cursor_y
             /\ panel.screen = Found.screen

\* CSI 2 ; 3 r was fed in origin mode, with the cursor in the last cell and
\* the region on the first two rows: the cursor is at the start of row 1.
SetScrollingRegionWitness ==
  /\ Len(stream) = 2
  /\ LastFed = Csi(<<2, 3>>, 114)
  /\ Found.modes.origin_mode
  /\ Found.scroll_bottom = 1
  /\ Found.cursor_x = GridWidth - 1
  /\ Found.cursor_y = 2
  /\ panel.scroll_top = 1
  /\ panel.scroll_bottom = 2
  /\ panel.cursor_x = 0
  /\ panel.cursor_y = 1


(***************************************************************************)
(* Properties of the state table.                                          *)
(***************************************************************************)
\* C35: a byte 0x30..0x3F fed in CSI_INTERMEDIATE leaves the parser in
\* CSI_IGNORE with no callback made, and a final byte 0x40..0x7E fed in
\* CSI_IGNORE leaves it in GROUND with no callback made.
CsiIntermediateParameter ==
  /\ (run.from = "CSI_INTERMEDIATE" /\ run.len = 1
        /\ InRange(run.data[1], 48, 63)) =>
       (parser.state = "CSI_IGNORE" /\ events = <<>>)
  /\ (run.from = "CSI_IGNORE" /\ run.len = 1
        /\ InRange(run.data[1], 64, 126)) =>
       (parser.state = "GROUND" /\ events = <<>>)


(***************************************************************************)
(* Properties of the character sets.                                       *)
(***************************************************************************)
\* The last of the controls fed that belongs to set, <<>> if there is none.
LastOf(log, set) ==
  LET ks == {k \in 1..Len(log) : log[k] \in set} IN
    IF ks = {} THEN <<>>
    ELSE log[CHOOSE k \in ks : \A j \in ks : j <= k]

\* G0 is invoked: no SO was fed since the last SI.
G0Invoked == LastOf(stream, {<<14>>, <<15>>}) # <<14>>

\* The last designation of G0 fed is ESC ( 0.
G0Special ==
  LastOf(stream, {<<27, 40, 48>>, <<27, 40, 66>>}) = <<27, 40, 48>>

\* The DEC Special Graphics glyphs of the bytes 0x60..0x7E, in order.
DecSpecialGraphics ==
  << 9670, 9618, 9225, 9228, 9229, 9226, 176, 177, 9252, 9227,   \* ` a-i
     9496, 9488, 9484, 9492, 9532,                               \* j-n
     9146, 9147, 9472, 9148, 9149,                               \* o-s
     9500, 9508, 9524, 9516, 9474,                               \* t-x
     8804, 8805, 960, 8800, 163, 183 >>                          \* y z { | } ~

\* C31: with G0 invoked, a printable ASCII byte b is written as the
\* (b - 0x5F)-th DEC Special Graphics glyph if the last designation of G0
\* was ESC ( 0 and b is in 0x60..0x7E, and as b itself otherwise: after
\* ESC ( B, for b in 0x20..0x5F, and whatever was designated to G1.
SpecialGraphics ==
  (run.len = 2 /\ G0Invoked) =>
    panel.screen[0][0].codepoint =
      IF G0Special /\ run.data[2] >= 96
        THEN DecSpecialGraphics[run.data[2] - 95]
        ELSE run.data[2]

\* ESC ( B, ESC ) 0 and ESC ( 0 were fed, then q was printed as U+2500.
SpecialGraphicsWitness ==
  /\ stream = <<(<<27, 40, 66>>), (<<27, 41, 48>>), (<<27, 40, 48>>)>>
  /\ run.data = <<13, 113>>
  /\ panel.screen[0][0].codepoint = 9472


(***************************************************************************)
(* Properties of single sequences.                                         *)
(***************************************************************************)
\* attrs with the bit set.
WithBit(attrs, bit) ==
  IF (attrs \div bit) % 2 = 1 THEN attrs ELSE attrs + bit

\* The colour and the tail of each sequence of ColourSgr.
ColourFed ==
  [data \in ColourSgr |->
     CHOOSE ct \in (IndexedColours \cup RgbColours) \X ColourTails :
       data = Csi(ct[1] \o ct[2], 109)]

\* C32: ESC [ 38 ; 5 ; n m sets fg to n and ESC [ 48 ; 5 ; n m sets bg to
\* n; with 2 ; r ; g ; b the colour set is (r > 127) + 2 (g > 127) +
\* 4 (b > 127); the other colour and the attributes are kept, and
\* parameters after the colour are applied as SGR codes: 4 sets
\* underline, 45 ; 9 sets bg to 5 and strikethrough.
ExtendedColourSgr ==
  (Len(stream) = 2 /\ LastFed \in ColourSgr) =>
    LET colour == ColourFed[LastFed][1]
        tail == ColourFed[LastFed][2]
        value ==
          IF colour[2] = 5 THEN colour[3]
          ELSE (IF colour[3] > 127 THEN 1 ELSE 0)
               + 2 * (IF colour[4] > 127 THEN 1 ELSE 0)
               + 4 * (IF colour[5] > 127 THEN 1 ELSE 0)
        fg == IF colour[1] = 38 THEN value ELSE Found.fg_color
        bg == IF colour[1] = 48 THEN value ELSE Found.bg_color
    IN /\ panel.fg_color = fg
       /\ panel.bg_color = IF tail = <<45, 9>> THEN 5 ELSE bg
       /\ panel.attrs =
            CASE tail = <<>> -> Found.attrs
              [] tail = <<4>> -> WithBit(Found.attrs, 2)
              [] tail = <<45, 9>> -> WithBit(Found.attrs, 128)

\* ESC [ 38 ; 2 ; 128 ; 0 ; 128 ; 4 m was fed to a bold pen with fg 2 and
\* bg 4: fg is 5, bg is kept and underline is added.
ExtendedColourSgrWitness ==
  /\ Len(stream) = 2
  /\ LastFed = Csi(<<38, 2, 128, 0, 128, 4>>, 109)
  /\ Found.fg_color = 2
  /\ panel.fg_color = 5
  /\ panel.bg_color = 4
  /\ panel.attrs = 3


\* C33: CSI A, B, E, F, d, H and f leave the cursor row within the
\* scrolling region while origin mode is set and within the grid while it
\* is reset.
OriginClamp ==
  (Len(stream) = 2 /\ LastFed \in RowMoves) =>
    IF panel.modes.origin_mode
      THEN panel.scroll_top <= panel.cursor_y
           /\ panel.cursor_y <= panel.scroll_bottom
      ELSE 0 <= panel.cursor_y /\ panel.cursor_y < panel.screen_height


\* C34: a CSI sequence with a final byte the screen has no case for, an
\* SGR value it has no case for and an h or l mode number its set does not
\* have leave the panel as the call found it; a recognised parameter in
\* the same sequence is applied: 4 among unknown SGR values sets
\* underline, 4 among unknown ANSI modes sets or resets insert mode, 25
\* among unknown DEC private modes sets or resets cursor visibility.
UnknownNoOp ==
  Len(stream) = 2 =>
    /\ LastFed \in UnknownAlone => panel = Found
    /\ LastFed \in UnknownSgrUnderline =>
         panel = [Found EXCEPT !.attrs = WithBit(@, 2)]
    /\ \A set \in BOOLEAN :
         /\ LastFed \in UnknownModesInsert[set] =>
              panel = [Found EXCEPT !.modes.insert_mode = set]
         /\ LastFed \in UnknownModesVisible[set] =>
              panel = [Found EXCEPT !.modes.cursor_visible = set]

\* ESC [ 6 ; 4 h was fed: origin mode is as it was, reset, and insert mode
\* is set.
UnknownNoOpWitness ==
  /\ Len(stream) = 2
  /\ LastFed = Modes(FALSE, <<6, 4>>, TRUE)
  /\ ~Found.modes.origin_mode
  /\ ~Found.modes.insert_mode
  /\ ~panel.modes.origin_mode
  /\ panel.modes.insert_mode


\* C36: CSI L, M, S and T, LF, VT, FF, ESC D, ESC E, ESC M and a printed
\* letter leave every cell of the rows outside the scrolling region as it
\* was, but for the cell the letter is written to; CSI L and M also leave
\* the rows above the cursor as they were, and the whole panel when the
\* cursor row is outside the region.
RegionConfinement ==
  (Len(stream) = 2 /\ LastFed \in ScrollOps) =>
    /\ \A row \in Rows(Found) : \A col \in Cols(Found) :
         (row < Found.scroll_top \/ row > Found.scroll_bottom) =>
           \/ LastFed = Letter /\ row = Found.cursor_y
                /\ col = Found.cursor_x
           \/ panel.screen[row][col] = Found.screen[row][col]
    /\ LastFed \in InsertDeleteLines =>
         /\ \A row \in Rows(Found) :
              row < Found.cursor_y => panel.screen[row] = Found.screen[row]
         /\ (Found.cursor_y < Found.scroll_top
               \/ Found.cursor_y > Found.scroll_bottom) => panel = Found

\* ESC [ 2 S was fed with the region on the first two rows: both rows
\* changed and the third is as it was.
RegionConfinementWitness ==
  /\ Len(stream) = 2
  /\ LastFed = Csi(<<2>>, 83)
  /\ Found.scroll_top = 0
  /\ Found.scroll_bottom = 1
  /\ panel.screen[0] # Found.screen[0]
  /\ panel.screen[1] # Found.screen[1]
  /\ panel.screen[2] = Found.screen[2]


\* C37: when the only callback of a call is a csi_dispatch or an
\* esc_dispatch made with ignore set, the panel is as the call found it.
IgnoredDispatch ==
  (/\ Len(stream) = 2
   /\ Len(events) = 1
   /\ events[1].cb \in {"csi_dispatch", "esc_dispatch"}
   /\ events[1].ignore) =>
    panel = Found

\* ESC ( ( ( c was fed to a prepared panel and dispatched with ignore set:
\* the region, the cursor and the pen are as prepared, not reset.
IgnoredDispatchWitness ==
  /\ Len(stream) = 2
  /\ LastFed = <<27, 40, 40, 40, 99>>
  /\ Len(events) = 1
  /\ events[1].cb = "esc_dispatch"
  /\ events[1].ignore
  /\ Found.scroll_top = 1
  /\ Found.cursor_y = 2
  /\ Found.attrs = 1
  /\ panel = Found


\* C38: an ESC sequence with an intermediate changes nothing of the panel
\* but g0_charset and g1_charset, and with the intermediate ( or ) and a
\* final byte of the designation table G0 or G1 is the charset of the
\* table.
IntermediateEsc ==
  (Len(stream) = 2 /\ LastFed \in IntermediateEscs) =>
    /\ panel = [Found EXCEPT !.g0_charset = panel.g0_charset,
                             !.g1_charset = panel.g1_charset]
    /\ (LastFed[2] = 40 /\ LastFed[3] \in DesignationFinals) =>
         panel.g0_charset = DesignatedCharset(LastFed[3])
    /\ (LastFed[2] = 41 /\ LastFed[3] \in DesignationFinals) =>
         panel.g1_charset = DesignatedCharset(LastFed[3])


\* C40: CSI n J with n above 3 and CSI n K with n above 2 leave the grid,
\* the cursor and the pen as they were.
UnknownErase ==
  (Len(stream) = 2 /\ LastFed \in UnknownErases) =>
    /\ panel.screen = Found.screen
    /\ panel.cursor_x = Found.cursor_x
    /\ panel.cursor_y = Found.cursor_y
    /\ CursorPen(panel) = CursorPen(Found)


(***************************************************************************)
(* Properties of slicing 7-bit streams.                                    *)
(***************************************************************************)
\* C39: when every byte of the stream is below 0x80, however the stream is
\* cut into slices, the callbacks made over the calls, the parser and the
\* screen they leave are those of one call with the whole stream.
SevenBitSliceInvariance ==
  (\A k \in 1..Len(stream) : stream[k] < 128) =>
    /\ calls = Unplaced(Whole.events)
    /\ parser = Whole.parser
    /\ panel = Whole.panel

\* ESC [ 2 B was fed with the final byte in a slice of its own, met in
\* CSI_PARAM: one csi_dispatch was made and the cursor is two rows down.
SevenBitSliceInvarianceWitness ==
  /\ stream = <<27, 91, 50, 66>>
  /\ run.len = 1
  /\ run.from = "CSI_PARAM"
  /\ Len(calls) = 1
  /\ calls[1].cb = "csi_dispatch"
  /\ panel.cursor_y = 2
  /\ parser.state = "GROUND"
====
